---------------------------- MODULE Spec2Model ----------------------------
(***************************************************************************)
(* State-machine model of the job orchestration code of the transcription  *)
(* server:                                                                 *)
(*   - GPUMonitor / GPUJobManager          (src/server/gpu_manager.py)     *)
(*   - the HTTP submit operation           (src/app.py)                    *)
(*   - TranscriptionProgressTracker        (src/server/websocket_server.py)*)
(*   - MultiModelTranscriber.transcribe_audio                              *)
(*                                (src/server/multi_model_transcriber.py)  *)
(*   - the upload handler of the standalone server                         *)
(*                                          (src/windows_transcriber.py)   *)
(*                                                                         *)
(* Python's None is modelled by the empty sequence <<>> and a present      *)
(* value v by <<v>>.  A dict that keeps insertion order is a sequence of   *)
(* its values with pairwise distinct keys.                                 *)
(***************************************************************************)
EXTENDS Integers, Sequences, FiniteSets, TLC

VARIABLES
    now,                  \* wall clock, time.time(), in seconds
    \* ---- GPUMonitor -----------------------------------------------------
    current_stats,        \* GPUMonitor.current_stats: <<>> or <<SystemStats>>
    is_monitoring,        \* GPUMonitor.is_monitoring
    stats_history,        \* GPUMonitor.stats_history
    max_history,          \* GPUMonitor.max_history
    m_pc,                 \* position of the monitor thread in _monitor_loop
    m_stats,              \* local `stats` of _monitor_loop: <<>> or <<SystemStats>>
    m_stop,               \* the stop_monitoring call: "none", "joining", "returned"
    sample_count,         \* SystemStats objects created so far
    \* ---- GPUResourceManager ---------------------------------------------
    best_gpu_ret,         \* the last get_best_gpu call: <<>> or <<result>>
    settings_ret,         \* the last get_optimal_settings call: <<>> or <<dict>>
    history_ret,          \* the last get_stats_history call: <<>> or <<list>>
    \* ---- GPUJobManager --------------------------------------------------
    max_concurrent_jobs,  \* GPUJobManager.max_concurrent_jobs
    job_queue,            \* GPUJobManager.job_queue, in order of arrival
    active_jobs,          \* GPUJobManager.active_jobs (dict, insertion order)
    completed_jobs,       \* GPUJobManager.completed_jobs (list of job ids)
    pc,                   \* position of the worker thread in _process_jobs
    pass_job,             \* local `job` of the current pass: <<>> or <<job id>>
    current_time,         \* local `current_time` of _check_completed_jobs
    iter_used,            \* dict size seen when the iteration over items() began
    completed_job_ids,    \* local `completed_job_ids` of _check_completed_jobs
    job_counter,          \* the caller's job counter: ids 1..job_counter are in use
    ret,                  \* the last cancel_job call: <<>> or <<[job_id, result]>>
    \* ---- app.py --------------------------------------------------------
    app_job_counter,      \* global job_counter
    jobs_db,              \* global jobs_db: job id -> job record
    task_pos,             \* job id -> position of its process_transcription task
    \* ---- TranscriptionProgressTracker ----------------------------------
    job_progress,         \* job_progress: job id -> progress record
    active_transcriptions,\* active_transcriptions: set of job ids
    published,            \* broadcasts handed to asyncio.create_task, in order
    \* ---- WebSocketServer ------------------------------------------------
    clients,              \* clients: client id -> ClientSubscription
    client_pc,            \* client id -> position of its handle_client coroutine
    handled,              \* client messages handled so far
    inbox,                \* client id -> messages written to its connection
    dispatched,           \* broadcast tasks of `published` that have run
    sends,                \* the _send_safe tasks created by gather, in order
    metrics_passes,       \* iterations of broadcast_metrics_loop so far
    \* ---- MultiModelTranscriber.transcribe_audio ------------------------
    t_config,             \* the TranscriptionConfig of the call
    t_env,                \* gpu_info and chinese_processor of the transcriber
    t_pc,                 \* position inside transcribe_audio
    emitted,              \* the percents passed to progress_callback so far
    t_segments,           \* result.segments of the call, once the backend returned
    t_outcome,            \* "running", "returned" or the exception raised
    srt_file,             \* subtitles.srt: <<>> or <<the cues written>>
    vtt_file,             \* subtitles.vtt: <<>> or <<the file written>>
    \* ---- windows_transcriber.py ----------------------------------------
    w_active_jobs,        \* global active_jobs: job id -> the job dict stored
    w_jobs,               \* the job dicts created by handle_upload, in order
    w_accepted,           \* the job ids handle_upload answered with, in order
    w_threads,            \* the process_upload threads: job id, dict, position
    \* ---- the background loops and their start/stop calls ---------------
    loop_flag,            \* is_monitoring / is_processing as the calls set it
    loop_threads,         \* loop -> position of every thread started, in order
    loop_join,            \* loop -> is a stop call waiting in join()?
    loop_calls            \* start and stop calls made so far

schedVars == <<current_stats, max_concurrent_jobs, pass_job, job_queue, active_jobs,
               completed_jobs, pc, current_time, iter_used,
               completed_job_ids, job_counter, ret>>

appVars == <<app_job_counter, jobs_db, task_pos>>

trackerVars == <<job_progress, active_transcriptions, published>>

exportVars == <<srt_file, vtt_file>>

pipeVars == <<t_config, t_env, t_pc, emitted, t_segments, t_outcome,
              exportVars>>

monVars == <<is_monitoring, stats_history, max_history, m_pc, m_stats, m_stop,
             sample_count>>

callVars == <<best_gpu_ret, settings_ret, history_ret>>

winVars == <<w_active_jobs, w_jobs, w_accepted, w_threads>>

serverVars == <<clients, client_pc, handled, inbox, dispatched, sends,
                metrics_passes>>

lifecycleVars == <<loop_flag, loop_threads, loop_join, loop_calls>>

\* The state of the GPU manager as a whole.
managerVars == <<schedVars, monVars, callVars, lifecycleVars>>

otherVars == <<appVars, trackerVars, pipeVars, monVars, callVars, winVars,
               serverVars, lifecycleVars>>

vars == <<now, schedVars, monVars, callVars, appVars, trackerVars, pipeVars,
          winVars, serverVars, lifecycleVars>>

--------------------------------------------------------------------------
(* Bounds of the model *)

MaxJobs == 3          \* add_job calls in one behaviour
MaxConcurrent == 2    \* max_concurrent_jobs given to the constructor: 1..MaxConcurrent
MaxTime == 130        \* the clock stops advancing here
ClockStep == 61       \* seconds between two observations of the clock
MaxUploads == 3       \* upload requests in one behaviour
MaxSamples == 2       \* snapshots the monitor produces in one behaviour
MaxHistory == 1       \* max_history (1000 in the code, scaled down)
MaxLimit == 2         \* largest limit passed to get_stats_history
MaxMessages == 2      \* messages the clients send in one behaviour
MaxMetrics == 1       \* iterations of broadcast_metrics_loop
MaxEvents == 2        \* events the tracker publishes to a server with clients
MaxResultSegments == 2 \* segments a backend returns for one file
MaxCalls == 3         \* start and stop calls on one loop in one behaviour

JobIds == 1..MaxJobs
Priorities == {1, 2}  \* priorities a caller passes (1 is the default)
DefaultPriority == 1  \* TranscriptionJob.priority

(* Program constants *)

CompletionAge == 60   \* a job older than this many seconds is moved to completed
JoinTimeout == 5      \* stop_monitoring: join(timeout=5.0)
SubprocessTimeout == 10   \* _get_gpu_stats_nvidia_smi: subprocess.run(timeout=10)
TensorrtMemory == 4000    \* get_optimal_settings: memory_free > 4000
Fp16Memory == 6000        \* get_optimal_settings: memory_free > 6000
BatchMemory == 2000       \* get_optimal_settings: memory_free / 2000
MaxBatch == 4             \* get_optimal_settings: min(4, ...)
HeartbeatTimeout == 30    \* start_server: ping_interval=30
UpdateInterval == 2       \* GPUMonitor.update_interval
AdmissionSleep == 1       \* _process_jobs: time.sleep(1.0)

--------------------------------------------------------------------------
(* Helpers on sequences *)

Range(s) == {s[i] : i \in 1..Len(s)}

RemoveAt(s, i) == SubSeq(s, 1, i - 1) \o SubSeq(s, i + 1, Len(s))

--------------------------------------------------------------------------
(* GPUMonitor *)

\* GPUStats, with the fields the manager reads.
Device(gpu_id, utilization, memory_free) ==
    [gpu_id |-> gpu_id, utilization |-> utilization, memory_free |-> memory_free]

\* The device lists a telemetry source can deliver.
Samples ==
    { <<>>, <<Device(0, 70, 8000), Device(1, 30, 4000)>> }

\* SystemStats as produced by _collect_stats: the job counts start at 0.
\* `seq` is the identity of the object (the same object is referenced by
\* current_stats and by stats_history); the host figures are left out.
NewStats(seq, gpus, tensorrt_available) ==
    [seq |-> seq, gpus |-> gpus, active_jobs |-> 0, queue_length |-> 0,
     tensorrt_available |-> tensorrt_available]

\* The loop of get_best_gpu: best_gpu and lowest_utilization after the
\* devices from index i on have been visited.  lowest = <<>> stands for
\* float('inf').
RECURSIVE BestGpuFrom(_, _, _, _)
BestGpuFrom(gpus, i, best, lowest) ==
    IF i > Len(gpus) THEN best
    ELSE IF lowest = <<>> \/ gpus[i].utilization < lowest[1]
         THEN BestGpuFrom(gpus, i + 1, <<gpus[i].gpu_id>>, <<gpus[i].utilization>>)
         ELSE BestGpuFrom(gpus, i + 1, best, lowest)

\* A get_best_gpu that takes the first device without comparing.
GetFirstGpu ==
    IF current_stats = <<>> \/ current_stats[1].gpus = <<>> THEN <<>>
    ELSE <<current_stats[1].gpus[1].gpu_id>>

get_best_gpu ==
    IF current_stats = <<>> \/ current_stats[1].gpus = <<>> THEN <<>>
    ELSE BestGpuFrom(current_stats[1].gpus, 1, <<>>, <<>>)

\* What the outside world answers to one _collect_stats call: each GPU
\* source either raises (<<>>) or delivers a device list (<<list>>), psutil
\* works or raises, and `import tensorrt` works or raises ImportError.
SourceOutcomes == {<<>>} \cup {<<g>> : g \in Samples}

CollectInputs ==
    [gputil : SourceOutcomes, smi : SourceOutcomes, psutil_ok : BOOLEAN,
     tensorrt : BOOLEAN]

\* _get_gpu_stats_nvidia_smi: every failure is answered with an empty list.
NvidiaSmiStats(outcome) == IF outcome = <<>> THEN <<>> ELSE outcome[1]

\* The device list of _collect_stats: GPUtil, or nvidia-smi when GPUtil raised.
GpuStatsOf(in) ==
    IF in.gputil # <<>> THEN in.gputil[1] ELSE NvidiaSmiStats(in.smi)

\* psutil.cpu_percent and psutil.virtual_memory are called outside any try.
CollectRaises(in) == ~in.psutil_ok

\* _check_tensorrt_availability: True unless the import raises ImportError.
TensorrtAvailable(in) == in.tensorrt

\* The SystemStats a _collect_stats call returns when it does not raise.
CollectedStats(seq, in) == NewStats(seq, GpuStatsOf(in), TensorrtAvailable(in))

\* `while self.is_monitoring:`
MonitorTop ==
    /\ m_pc = "top"
    /\ m_pc' = IF is_monitoring THEN "collect" ELSE "done"
    /\ UNCHANGED <<now, schedVars, is_monitoring, stats_history, max_history,
                   m_stats, m_stop, sample_count, callVars, appVars,
                   trackerVars, pipeVars, winVars, serverVars, lifecycleVars>>

\* `stats = self._collect_stats()`; an exception is logged by the handler
\* of the loop, which then sleeps.
MonitorCollect(in) ==
    /\ m_pc = "collect"
    /\ sample_count < MaxSamples
    /\ IF CollectRaises(in)
       THEN /\ m_pc' = "sleep"
            /\ UNCHANGED <<m_stats, sample_count>>
       ELSE /\ m_stats' = <<CollectedStats(sample_count + 1, in)>>
            /\ sample_count' = sample_count + 1
            /\ m_pc' = "publish"
    /\ UNCHANGED <<now, schedVars, is_monitoring, stats_history, max_history,
                   m_stop, callVars, appVars, trackerVars, pipeVars, winVars, serverVars, lifecycleVars>>

\* `self.current_stats = stats`
MonitorPublish ==
    /\ m_pc = "publish"
    /\ current_stats' = m_stats
    /\ m_pc' = "append"
    /\ UNCHANGED <<now, max_concurrent_jobs, pass_job, job_queue, active_jobs,
                   completed_jobs, pc, current_time, iter_used,
                   completed_job_ids, job_counter, ret,
                   is_monitoring, stats_history, max_history, m_stats, m_stop,
                   sample_count, callVars, appVars, trackerVars, pipeVars,
                   winVars, serverVars, lifecycleVars>>

\* `self.stats_history.append(stats)`
MonitorAppend ==
    /\ m_pc = "append"
    /\ stats_history' = Append(stats_history, m_stats[1])
    /\ m_pc' = "trim"
    /\ UNCHANGED <<now, schedVars, is_monitoring, max_history, m_stats, m_stop,
                   sample_count, callVars, appVars, trackerVars, pipeVars,
                   winVars, serverVars, lifecycleVars>>

\* `if len(self.stats_history) > self.max_history: self.stats_history.pop(0)`
MonitorTrim ==
    /\ m_pc = "trim"
    /\ stats_history' = IF Len(stats_history) > max_history
                        THEN Tail(stats_history) ELSE stats_history
    /\ m_stats' = <<>>
    /\ m_pc' = "sleep"
    /\ UNCHANGED <<now, schedVars, is_monitoring, max_history, m_stop,
                   sample_count, callVars, appVars, trackerVars, pipeVars,
                   winVars, serverVars, lifecycleVars>>

\* `time.sleep(self.update_interval)`, in the body or in the handler.
MonitorSleep ==
    /\ m_pc = "sleep"
    /\ m_pc' = "top"
    /\ UNCHANGED <<now, schedVars, is_monitoring, stats_history, max_history,
                   m_stats, m_stop, sample_count, callVars, appVars,
                   trackerVars, pipeVars, winVars, serverVars, lifecycleVars>>

\* stop_monitoring: `self.is_monitoring = False`, then the join begins.
StopBegin ==
    /\ m_stop = "none"
    /\ is_monitoring' = FALSE
    /\ m_stop' = "joining"
    /\ UNCHANGED <<now, schedVars, stats_history, max_history, m_pc, m_stats,
                   sample_count, callVars, appVars, trackerVars, pipeVars,
                   winVars, serverVars, lifecycleVars>>

\* join(timeout=5.0) returns when the thread has ended, or when the
\* timeout passes while the thread is inside _collect_stats, whose
\* nvidia-smi call alone may take up to its own timeout.  The sleep of the
\* loop (2 s) and the statements after the sample end within the timeout.
JoinTimesOut == m_pc = "collect" /\ SubprocessTimeout > JoinTimeout

StopReturn ==
    /\ m_stop = "joining"
    /\ m_pc = "done" \/ JoinTimesOut
    /\ m_stop' = "returned"
    /\ UNCHANGED <<now, schedVars, is_monitoring, stats_history, max_history,
                   m_pc, m_stats, sample_count, callVars, appVars, trackerVars,
                   pipeVars, winVars, serverVars, lifecycleVars>>

\* GPUMonitor(): nothing sampled, no thread.
MonitorInit ==
    /\ is_monitoring = FALSE
    /\ stats_history = <<>>
    /\ max_history = MaxHistory
    /\ m_pc = "idle"
    /\ m_stats = <<>>
    /\ m_stop = "none"
    /\ sample_count = 0

\* GPUMonitor() followed by start_monitoring(), as at the import of the module.
MonitorStarted ==
    /\ is_monitoring = TRUE
    /\ stats_history = <<>>
    /\ max_history = MaxHistory
    /\ m_pc = "top"
    /\ m_stats = <<>>
    /\ m_stop = "none"
    /\ sample_count = 0

--------------------------------------------------------------------------
(* TranscriptionJob *)

\* TranscriptionJob(job_id, video_path, priority): gpu_id None, created_at
\* set by __post_init__ to time.time().
NewJob(job_id, priority) ==
    [job_id |-> job_id, priority |-> priority, gpu_id |-> <<>>, created_at |-> now]

\* A comparison that forgets the priority: first come, first served.
JobLtFifo(a, b) == a.created_at < b.created_at

\* TranscriptionJob.__lt__: tuple comparison of (priority, created_at).
JobLt(a, b) ==
    \/ a.priority < b.priority
    \/ a.priority = b.priority /\ a.created_at < b.created_at

--------------------------------------------------------------------------
(* GPUJobManager *)

ActiveIds == {active_jobs[i].job_id : i \in 1..Len(active_jobs)}
QueueIds == {job_queue[i].job_id : i \in 1..Len(job_queue)}
CompletedIds == Range(completed_jobs)

\* `del self.active_jobs[job_id]`
DelActive(job_id) == SelectSeq(active_jobs, LAMBDA j : j.job_id # job_id)

\* `self.active_jobs[job.job_id] = job`: a new key goes last, an existing
\* key keeps its place.
SetActive(job) ==
    IF job.job_id \in ActiveIds
    THEN [i \in 1..Len(active_jobs) |->
            IF active_jobs[i].job_id = job.job_id THEN job ELSE active_jobs[i]]
    ELSE Append(active_jobs, job)

\* add_job, as called by GPUResourceManager.add_transcription_job with the
\* next id of the caller's job counter.
add_job(priority) ==
    /\ job_counter < MaxJobs
    /\ job_counter' = job_counter + 1
    /\ job_queue' = Append(job_queue, NewJob(job_counter + 1, priority))
    /\ UNCHANGED <<current_stats, max_concurrent_jobs, pass_job, active_jobs,
                   completed_jobs, pc, current_time, iter_used,
                   completed_job_ids, now, ret,
                   otherVars>>

\* A cancel_job that reports success whatever the job id.
CancelResultAlways(job_id) == TRUE

\* The value cancel_job returns.
CancelResult(job_id) == job_id \in ActiveIds

cancel_job(job_id) ==
    /\ IF job_id \in ActiveIds
       THEN active_jobs' = DelActive(job_id)
       ELSE UNCHANGED active_jobs
    /\ ret' = <<[job_id |-> job_id, result |-> CancelResult(job_id)]>>
    /\ UNCHANGED <<current_stats, max_concurrent_jobs, pass_job, job_queue,
                   completed_jobs, pc, current_time, iter_used,
                   completed_job_ids, now, job_counter,
                   otherVars>>

\* A capacity test that also wants a device to be on offer.
HasCapacityAndDevice ==
    /\ Len(active_jobs) < max_concurrent_jobs
    /\ current_stats # <<>>
    /\ current_stats[1].gpus # <<>>

\* The capacity test with <= in place of <.
HasCapacityOffByOne == Len(active_jobs) <= max_concurrent_jobs

\* A capacity test that keeps one slot back.
HasCapacityButOne == Len(active_jobs) + 1 < max_concurrent_jobs

\* `len(self.active_jobs) < self.max_concurrent_jobs`
HasCapacity == Len(active_jobs) < max_concurrent_jobs

\* _process_jobs, the condition of the `if` that guards admission.  The
\* `job` an earlier pass took from the queue is not read again.
LoopHead ==
    /\ pc = "loop"
    /\ pc' = IF HasCapacity /\ job_queue # <<>> THEN "get" ELSE "check"
    /\ pass_job' = <<>>
    /\ UNCHANGED <<current_stats, max_concurrent_jobs, job_queue, active_jobs,
                   completed_jobs, current_time, iter_used,
                   completed_job_ids, now, job_counter, ret,
                   otherVars>>

\* The entries PriorityQueue.get may return: those no other entry is less than.
IsMinimal(i) == \A k \in 1..Len(job_queue) : ~JobLt(job_queue[k], job_queue[i])

\* _start_job(job): the job gets the best device unless it has one, and
\* enters active_jobs.
Started(job) ==
    [job EXCEPT !.gpu_id = IF job.gpu_id = <<>> THEN get_best_gpu ELSE job.gpu_id]

\* job = self.job_queue.get_nowait(); self._start_job(job).  An empty queue
\* raises, and the bare `except: pass` goes on to the completion check.
GetAndStart ==
    /\ pc = "get"
    /\ IF job_queue = <<>>
       THEN UNCHANGED <<job_queue, active_jobs, pass_job>>
       ELSE \E i \in 1..Len(job_queue) :
              /\ IsMinimal(i)
              /\ job_queue' = RemoveAt(job_queue, i)
              /\ pass_job' = <<job_queue[i].job_id>>
              /\ active_jobs' = SetActive(Started(job_queue[i]))
    /\ pc' = "check"
    /\ UNCHANGED <<current_stats, max_concurrent_jobs, completed_jobs,
                   current_time, iter_used, completed_job_ids, now, job_counter,
                   ret,
                   otherVars>>

\* _check_completed_jobs: current_time = time.time() and the start of the
\* iteration over self.active_jobs.items().
CheckBegin ==
    /\ pc = "check"
    /\ current_time' = now
    /\ iter_used' = Len(active_jobs)
    /\ pc' = "collect"
    /\ UNCHANGED <<current_stats, max_concurrent_jobs, pass_job, job_queue, active_jobs,
                   completed_jobs, completed_job_ids, now, job_counter, ret,
                   otherVars>>

\* The age test of _check_completed_jobs.
Expired(job) == current_time - job.created_at > CompletionAge

\* The loop over self.active_jobs.items(): the ids of the expired jobs, in
\* the order of the dict.
RECURSIVE ExpiredIds(_)
ExpiredIds(jobs) ==
    IF jobs = <<>> THEN <<>>
    ELSE (IF Expired(Head(jobs)) THEN <<Head(jobs).job_id>> ELSE <<>>)
         \o ExpiredIds(Tail(jobs))

\* The end of the iteration: a dict whose size changed meanwhile (a
\* cancel_job from another thread) raises RuntimeError, which the handler of
\* _process_jobs logs before it sleeps.
CheckCollect ==
    /\ pc = "collect"
    /\ IF Len(active_jobs) # iter_used
       THEN /\ pc' = "loop"
            /\ UNCHANGED completed_job_ids
       ELSE /\ completed_job_ids' = ExpiredIds(active_jobs)
            /\ pc' = "move"
    /\ current_time' = 0
    /\ iter_used' = 0
    /\ UNCHANGED <<current_stats, max_concurrent_jobs, pass_job, job_queue, active_jobs,
                   completed_jobs, now, job_counter, ret,
                   otherVars>>

\* One iteration of `for job_id in completed_job_ids`: append, then del,
\* which raises KeyError when cancel_job removed the job meanwhile.
MoveCompleted ==
    /\ pc = "move"
    /\ completed_job_ids # <<>>
    /\ LET job_id == Head(completed_job_ids)
       IN /\ completed_jobs' = Append(completed_jobs, job_id)
          /\ IF job_id \in ActiveIds
             THEN /\ active_jobs' = DelActive(job_id)
                  /\ completed_job_ids' = Tail(completed_job_ids)
                  /\ pc' = "move"
             ELSE /\ UNCHANGED active_jobs
                  /\ completed_job_ids' = <<>>
                  /\ pc' = "loop"
    /\ UNCHANGED <<current_stats, max_concurrent_jobs, pass_job, job_queue,
                   current_time, iter_used, now, job_counter, ret,
                   otherVars>>

\* The two assignments of the job counts to fields of a SystemStats.
WithJobCounts(stats) ==
    [stats EXCEPT !.active_jobs = Len(active_jobs),
                  !.queue_length = Len(job_queue)]

\* Two references (<<>> for None) to the same SystemStats object.
SameObject(a, b) == a # <<>> /\ b # <<>> /\ a[1].seq = b[1].seq

\* The rest of the pass: the job counts are written into the object
\* current_stats refers to, which stats_history and the monitor thread
\* may refer to as well; then time.sleep(1.0).
UpdateStats ==
    /\ pc = "move"
    /\ completed_job_ids = <<>>
    /\ current_stats' =
         IF current_stats = <<>> THEN <<>> ELSE <<WithJobCounts(current_stats[1])>>
    /\ stats_history' = [i \in 1..Len(stats_history) |->
                            IF SameObject(<<stats_history[i]>>, current_stats)
                            THEN WithJobCounts(stats_history[i])
                            ELSE stats_history[i]]
    /\ m_stats' = IF m_stats # <<>> /\ SameObject(m_stats, current_stats)
                  THEN <<WithJobCounts(m_stats[1])>> ELSE m_stats
    /\ pc' = "loop"
    /\ UNCHANGED <<max_concurrent_jobs, pass_job, job_queue, active_jobs, completed_jobs,
                   current_time, iter_used, completed_job_ids, now,
                   job_counter, ret,
                   is_monitoring, max_history, m_pc, m_stop, sample_count,
                   callVars, appVars, trackerVars, pipeVars, winVars, serverVars, lifecycleVars>>

\* Wall-clock time passes.
AdvanceClock ==
    /\ now + ClockStep <= MaxTime
    /\ now' = now + ClockStep
    /\ UNCHANGED <<schedVars, otherVars>>

\* GPUJobManager(gpu_monitor, max_concurrent_jobs) followed by
\* start_processing(); the monitor has produced no snapshot.
JobManagerInit(m) ==
    /\ max_concurrent_jobs = m
    /\ pass_job = <<>>
    /\ job_queue = <<>>
    /\ active_jobs = <<>>
    /\ completed_jobs = <<>>
    /\ pc = "loop"
    /\ current_time = 0
    /\ iter_used = 0
    /\ completed_job_ids = <<>>
    /\ job_counter = 0
    /\ ret = <<>>

\* The same over a monitor that has produced no snapshot.
SchedInit(m) ==
    /\ current_stats = <<>>
    /\ JobManagerInit(m)

\* The constructor's default for max_concurrent_jobs.
DefaultMaxConcurrent == 2

--------------------------------------------------------------------------
(* GPUResourceManager: calls that only read the latest snapshot *)

MaxDevices == 2       \* devices in a snapshot given to these calls

DeviceIds == 0..(MaxDevices - 1)
Utilizations == {30, 70}
MemoryFreeInputs == {1999, 4000, 4001, 6000, 6001, 9000}

\* The sequences of at most n devices with pairwise distinct ids, in any
\* order of the ids.
RECURSIVE DeviceLists(_)
DeviceLists(n) ==
    IF n = 0 THEN {<<>>}
    ELSE LET shorter == DeviceLists(n - 1)
         IN shorter \cup
            { Append(l, Device(i, u, f)) :
                l \in {x \in shorter : Len(x) = n - 1},
                i \in DeviceIds, u \in Utilizations, f \in MemoryFreeInputs }

DistinctIds(gpus) ==
    \A i, k \in 1..Len(gpus) : i # k => gpus[i].gpu_id # gpus[k].gpu_id

\* The snapshots these calls are applied to: none, or one with any such list.
SnapshotInputs ==
    {<<>>} \cup
    { <<NewStats(1, gpus, trt)>> :
        gpus \in {l \in DeviceLists(MaxDevices) : DistinctIds(l)},
        trt \in BOOLEAN }

\* `next((gpu for gpu in stats.gpus if gpu.gpu_id == best_gpu), None)`
RECURSIVE FirstWithId(_, _)
FirstWithId(gpus, best_gpu) ==
    IF gpus = <<>> THEN <<>>
    ELSE IF <<Head(gpus).gpu_id>> = best_gpu THEN <<Head(gpus)>>
    ELSE FirstWithId(Tail(gpus), best_gpu)

\* The dict returned when there is no device to use.
NoGpuSettings ==
    [use_gpu |-> FALSE, use_tensorrt |-> FALSE, batch_size |-> 1,
     precision |-> "fp32"]

Min(a, b) == IF a < b THEN a ELSE b
Max(a, b) == IF a > b THEN a ELSE b

\* The dict get_optimal_settings derives from the chosen device.
SettingsFor(stats, gpu_stats, best_gpu) ==
    [use_gpu |-> TRUE,
     use_tensorrt |-> stats.tensorrt_available
                      /\ gpu_stats.memory_free > TensorrtMemory,
     batch_size |-> Min(MaxBatch, Max(1, gpu_stats.memory_free \div BatchMemory)),
     precision |-> IF gpu_stats.memory_free > Fp16Memory THEN "fp16" ELSE "fp32",
     gpu_id |-> best_gpu[1],
     memory_available |-> gpu_stats.memory_free]

\* get_optimal_settings, evaluated on the latest snapshot.
OptimalSettings ==
    IF current_stats = <<>> \/ current_stats[1].gpus = <<>> THEN NoGpuSettings
    ELSE LET gpu_stats == FirstWithId(current_stats[1].gpus, get_best_gpu)
         IN IF gpu_stats = <<>> THEN NoGpuSettings
            ELSE SettingsFor(current_stats[1], gpu_stats[1], get_best_gpu)

\* A call of GPUMonitor.get_best_gpu.
call_get_best_gpu ==
    /\ best_gpu_ret' = <<get_best_gpu>>
    /\ UNCHANGED <<now, schedVars, monVars, settings_ret, history_ret, appVars,
                   trackerVars,
                   pipeVars, winVars, serverVars, lifecycleVars>>

\* A call of GPUResourceManager.get_optimal_settings.
call_get_optimal_settings ==
    /\ settings_ret' = <<OptimalSettings>>
    /\ UNCHANGED <<now, schedVars, monVars, best_gpu_ret, history_ret, appVars,
                   trackerVars,
                   pipeVars, winVars, serverVars, lifecycleVars>>

\* `seq[start:]` of Python for any integer start: a negative start counts
\* from the end and is clamped at the first element, a start past the end
\* gives the empty list.
SliceFrom(seq, start) ==
    LET first == IF start < 0 THEN Max(Len(seq) + start, 0)
                 ELSE Min(start, Len(seq))
    IN  SubSeq(seq, first + 1, Len(seq))

\* GPUMonitor.get_stats_history: `self.stats_history[-limit:]`; -limit is
\* the integer negation, so limit = 0 gives the start 0.
get_stats_history(limit) == SliceFrom(stats_history, 0 - limit)

\* A call of GPUMonitor.get_stats_history with 0 <= limit <= MaxLimit.
call_get_stats_history(limit) ==
    /\ history_ret' = <<[limit |-> limit, result |-> get_stats_history(limit)]>>
    /\ UNCHANGED <<now, schedVars, monVars, best_gpu_ret, settings_ret, appVars,
                   trackerVars, pipeVars, winVars, serverVars, lifecycleVars>>

CallInit ==
    /\ best_gpu_ret = <<>>
    /\ settings_ret = <<>>
    /\ history_ret = <<>>

NextSettings ==
    \/ call_get_best_gpu
    \/ call_get_optimal_settings

--------------------------------------------------------------------------
(* windows_transcriber.py: handle_upload and its process_upload thread *)

\* Positions of a process_upload thread.
UploadSteps == 4

\* The job dict handle_upload creates.
NewUpload(job_id) ==
    [id |-> job_id, progress |-> 0, finished |-> FALSE, success |-> FALSE]

\* handle_upload for a multipart request: the id is the wall clock in whole
\* seconds (its decimal string, which is one-to-one), the dict is stored
\* under it, replacing what was there, and the thread is started.
handle_upload ==
    /\ Len(w_accepted) < MaxUploads
    /\ LET job_id == now
       IN /\ w_jobs' = Append(w_jobs, NewUpload(job_id))
          /\ w_active_jobs' =
                [k \in DOMAIN w_active_jobs \cup {job_id} |->
                    IF k = job_id THEN Len(w_jobs) + 1 ELSE w_active_jobs[k]]
          /\ w_threads' = Append(w_threads, [job_id |-> job_id, job |-> 0, pos |-> 0])
          /\ w_accepted' = Append(w_accepted, job_id)
    /\ UNCHANGED <<now, managerVars, appVars, trackerVars, pipeVars,
                   serverVars>>

\* One step of the process_upload thread t: `job = active_jobs[job_id]`,
\* then the three groups of assignments to the dict it got.
process_upload_step(t) ==
    /\ t \in 1..Len(w_threads)
    /\ w_threads[t].pos < UploadSteps
    /\ LET th == w_threads[t]
       IN IF th.pos = 0
          THEN /\ w_threads' = [w_threads EXCEPT
                                  ![t].job = w_active_jobs[th.job_id],
                                  ![t].pos = 1]
               /\ UNCHANGED w_jobs
          ELSE /\ w_threads' = [w_threads EXCEPT ![t].pos = th.pos + 1]
               /\ w_jobs' = [w_jobs EXCEPT ![th.job] =
                     IF th.pos = 1 THEN [@ EXCEPT !.progress = 20]
                     ELSE IF th.pos = 2 THEN [@ EXCEPT !.progress = 50]
                     ELSE [@ EXCEPT !.progress = 100, !.finished = TRUE,
                                    !.success = TRUE]]
    /\ UNCHANGED <<now, w_active_jobs, w_accepted, managerVars, appVars,
                   trackerVars, pipeVars, serverVars>>

WinInit ==
    /\ w_active_jobs = <<>>
    /\ w_jobs = <<>>
    /\ w_accepted = <<>>
    /\ w_threads = <<>>

NextUpload ==
    \/ handle_upload
    \/ \E t \in 1..MaxUploads : process_upload_step(t)
    \/ AdvanceClock

--------------------------------------------------------------------------
(* app.py: the HTTP submit operation and its transcription task *)

AppMaxConcurrentJobs == 1  \* config["system"]["max_concurrent_jobs"]
ProgressStep == 10         \* range(0, 101, 10)
ProgressEnd == 100

\* Positions of a process_transcription task: k in 0..LastIteration is the
\* iteration that will set progress to k * ProgressStep after its sleep,
\* LastIteration + 1 is the code after the loop, LastIteration + 2 the end.
LastIteration == ProgressEnd \div ProgressStep
TaskFinishing == LastIteration + 1
TaskDone == LastIteration + 2

\* transcribe_file: the counter is incremented first; when saving the
\* upload raises, the handler answers success false and nothing else
\* happened.  Otherwise the job record is stored and the task is created.
transcribe_file(saved) ==
    /\ app_job_counter < MaxUploads
    /\ app_job_counter' = app_job_counter + 1
    /\ IF saved
       THEN LET job_id == app_job_counter + 1
            IN /\ jobs_db' = jobs_db @@
                     (job_id :> [status |-> "processing", progress |-> 0,
                                 results |-> FALSE])
               /\ task_pos' = task_pos @@ (job_id :> 0)
       ELSE UNCHANGED <<jobs_db, task_pos>>
    /\ UNCHANGED <<now, managerVars, trackerVars, pipeVars, winVars, serverVars>>

\* The status text an iteration of the loop leaves.
StatusAfter(status, progress) ==
    IF progress = 50 THEN "audio extracted"
    ELSE IF progress = 80 THEN "post-processing"
    ELSE status

\* process_transcription, one iteration of the progress loop (after its
\* sleep), or the code after the loop.
task_step(job_id) ==
    /\ job_id \in DOMAIN task_pos
    /\ task_pos[job_id] < TaskDone
    /\ LET k == task_pos[job_id]
           job == jobs_db[job_id]
       IN jobs_db' = [jobs_db EXCEPT ![job_id] =
            IF k <= LastIteration
            THEN [job EXCEPT !.progress = k * ProgressStep,
                             !.status = StatusAfter(job.status, k * ProgressStep)]
            ELSE [job EXCEPT !.status = "completed", !.progress = ProgressEnd,
                             !.results = TRUE]]
    /\ task_pos' = [task_pos EXCEPT ![job_id] = @ + 1]
    /\ UNCHANGED <<app_job_counter, now, managerVars, trackerVars, pipeVars, winVars, serverVars>>

\* The tasks that have begun their loop and not reached their end.
ExecutingTasks == {j \in DOMAIN task_pos : task_pos[j] \in 1..TaskFinishing}

\* get_system_metrics()["activeJobs"] and health_check()["active_jobs"]:
\* len([j for j in jobs_db.values() if j["status"] == "processing"])
ActiveJobsReported ==
    Cardinality({j \in DOMAIN jobs_db : jobs_db[j].status = "processing"})

AppInit ==
    /\ app_job_counter = 0
    /\ jobs_db = <<>>
    /\ task_pos = <<>>

NextApp ==
    \/ \E saved \in BOOLEAN : transcribe_file(saved)
    \/ \E j \in 1..MaxUploads : task_step(j)

--------------------------------------------------------------------------
(* TranscriptionProgressTracker *)

MaxPublished == 3     \* broadcasts created in one behaviour
MaxSegments == 1      \* segments added to one job

TrackerJobIds == {1, 2}
ProgressInputs == {30, 60}
StageInputs == {<<>>, <<"transcribing">>}
GpuInputs == {<<>>, <<50>>}
ResultInputs == {<<>>, <<"result">>}

\* asyncio.create_task(broadcast_to_job_subscribers(job_id, message))
Broadcast(type, job_id) == Append(published, [type |-> type, job_id |-> job_id])

\* Every method but start_job returns at once for a job id that is not
\* tracked: such a call is no step.
start_job(job_id) ==
    /\ Len(published) < MaxPublished
    /\ job_progress' = [k \in DOMAIN job_progress \cup {job_id} |->
         IF k = job_id
         THEN [status |-> "starting", progress |-> 0, stage |-> "Initializing...",
               started_at |-> now, segments |-> <<>>, gpu_utilization |-> <<>>,
               result |-> <<>>, error |-> <<>>, completed_at |-> <<>>,
               failed_at |-> <<>>]
         ELSE job_progress[k]]
    /\ active_transcriptions' = active_transcriptions \cup {job_id}
    /\ published' = Broadcast("job_started", job_id)
    /\ UNCHANGED <<now, managerVars, appVars, pipeVars, winVars, serverVars>>

update_progress(job_id, progress, stage, gpu_utilization) ==
    /\ job_id \in DOMAIN job_progress
    /\ Len(published) < MaxPublished
    /\ job_progress' = [job_progress EXCEPT ![job_id] =
         [@ EXCEPT !.progress = progress,
                   !.status = "processing",
                   !.stage = IF stage # <<>> THEN stage[1] ELSE @,
                   !.gpu_utilization =
                       IF gpu_utilization # <<>> THEN gpu_utilization ELSE @]]
    /\ published' = Broadcast("progress_update", job_id)
    /\ UNCHANGED <<active_transcriptions, now, managerVars, appVars,
                   pipeVars, winVars, serverVars>>

add_segment(job_id) ==
    /\ job_id \in DOMAIN job_progress
    /\ Len(published) < MaxPublished
    /\ Len(job_progress[job_id].segments) < MaxSegments
    /\ job_progress' = [job_progress EXCEPT ![job_id].segments = Append(@, "segment")]
    /\ published' = Broadcast("new_segment", job_id)
    /\ UNCHANGED <<active_transcriptions, now, managerVars, appVars,
                   pipeVars, winVars, serverVars>>

complete_job(job_id, result) ==
    /\ job_id \in DOMAIN job_progress
    /\ Len(published) < MaxPublished
    /\ job_progress' = [job_progress EXCEPT ![job_id] =
         [@ EXCEPT !.status = "completed",
                   !.progress = 100,
                   !.completed_at = <<now>>,
                   !.result = IF result # <<>> THEN result ELSE @]]
    /\ active_transcriptions' = active_transcriptions \ {job_id}
    /\ published' = Broadcast("job_completed", job_id)
    /\ UNCHANGED <<now, managerVars, appVars, pipeVars, winVars, serverVars>>

fail_job(job_id) ==
    /\ job_id \in DOMAIN job_progress
    /\ Len(published) < MaxPublished
    /\ job_progress' = [job_progress EXCEPT ![job_id] =
         [@ EXCEPT !.status = "failed",
                   !.error = <<"error">>,
                   !.failed_at = <<now>>]]
    /\ active_transcriptions' = active_transcriptions \ {job_id}
    /\ published' = Broadcast("job_failed", job_id)
    /\ UNCHANGED <<now, managerVars, appVars, pipeVars, winVars, serverVars>>

TrackerInit ==
    /\ job_progress = <<>>
    /\ active_transcriptions = {}
    /\ published = <<>>

NextTracker ==
    \/ \E j \in TrackerJobIds : start_job(j)
    \/ \E j \in TrackerJobIds, p \in ProgressInputs, s \in StageInputs,
          g \in GpuInputs : update_progress(j, p, s, g)
    \/ \E j \in TrackerJobIds : add_segment(j)
    \/ \E j \in TrackerJobIds, r \in ResultInputs : complete_job(j, r)
    \/ \E j \in TrackerJobIds : fail_job(j)
    \/ AdvanceClock

--------------------------------------------------------------------------
(* WebSocketServer *)

\* uuid4 gives every connection its own client id.
ClientIds == {"c1", "c2"}
\* The order of the clients dict matters only between clients; the model
\* fixes one.
ClientOrder == <<"c1", "c2">>
MessageTypes == {"subscribe_job", "unsubscribe_job", "subscribe_metrics",
                 "unsubscribe_metrics", "ping", "unknown"}
\* payload.get("job_id"): None or a job id
JobIdInputs == {<<>>} \cup {<<j>> : j \in TrackerJobIds}
WelcomeOutcomes == {"sent", "ConnectionClosed", "Exception"}
ExitReasons == {"closed", "ConnectionClosed", "Exception"}

ClientSubscription ==
    [subscribed_jobs |-> {}, subscribed_metrics |-> FALSE, last_ping |-> now]

\* A WebSocketMessage on the wire; k is the position of the event in
\* `published` (0 for a reply or a metrics message).
Message(type, job_id, k) == [type |-> type, job_id |-> job_id, k |-> k]

\* The connection of c is open: its handle_client has not finished.
Connected(c) == client_pc[c] \in {"welcome", "listening"}

\* A mis-cleaning handler: the entry survives an unexpected exception.
ClientsAfterCleanExit(c, reason) ==
    IF reason = "Exception" THEN clients
    ELSE [k \in DOMAIN clients \ {c} |-> clients[k]]

\* finally: if client_id in self.clients: del self.clients[client_id]
ClientsAfterExit(c, reason) ==
    [k \in DOMAIN clients \ {c} |-> clients[k]]

\* handle_client up to its first await: the client is registered.
handle_client(c) ==
    /\ client_pc[c] = "new"
    /\ clients' = [k \in DOMAIN clients \cup {c} |->
                      IF k = c THEN ClientSubscription ELSE clients[k]]
    /\ client_pc' = [client_pc EXCEPT ![c] = "welcome"]
    /\ UNCHANGED <<handled, inbox, dispatched, sends, metrics_passes, now,
                   managerVars, appVars, trackerVars, pipeVars, winVars>>

\* await websocket.send(welcome): sent, or raising into the except clauses
\* and the finally block.
send_welcome(c, outcome) ==
    /\ client_pc[c] = "welcome"
    /\ IF outcome = "sent"
       THEN /\ inbox' = [inbox EXCEPT ![c] = Append(@, Message("welcome", 0, 0))]
            /\ client_pc' = [client_pc EXCEPT ![c] = "listening"]
            /\ UNCHANGED clients
       ELSE /\ clients' = ClientsAfterExit(c, outcome)
            /\ client_pc' = [client_pc EXCEPT ![c] = "ended"]
            /\ UNCHANGED inbox
    /\ UNCHANGED <<handled, dispatched, sends, metrics_passes, now,
                   managerVars, appVars, trackerVars, pipeVars, winVars>>

\* A subscription list that toggles instead of adding and discarding.
ToggledSubscription(client, type, job_id) ==
    IF type \in {"subscribe_job", "unsubscribe_job"} /\ job_id # <<>>
    THEN [client EXCEPT !.subscribed_jobs =
             IF job_id[1] \in @ THEN @ \ {job_id[1]} ELSE @ \cup {job_id[1]}]
    ELSE IF type \in {"subscribe_metrics", "unsubscribe_metrics"}
    THEN [client EXCEPT !.subscribed_metrics = ~@]
    ELSE IF type = "ping" THEN [client EXCEPT !.last_ping = now]
    ELSE client

\* The assignments of handle_message to the ClientSubscription.
SubscriptionAfter(client, type, job_id) ==
    IF type = "subscribe_job" /\ job_id # <<>>
    THEN [client EXCEPT !.subscribed_jobs = @ \cup {job_id[1]}]
    ELSE IF type = "unsubscribe_job" /\ job_id # <<>>
    THEN [client EXCEPT !.subscribed_jobs = @ \ {job_id[1]}]
    ELSE IF type = "subscribe_metrics"
    THEN [client EXCEPT !.subscribed_metrics = TRUE]
    ELSE IF type = "unsubscribe_metrics"
    THEN [client EXCEPT !.subscribed_metrics = FALSE]
    ELSE IF type = "ping" THEN [client EXCEPT !.last_ping = now]
    ELSE client

\* What handle_message sends back: the job's status when the tracker has
\* one, a pong for a ping.
Replies(type, job_id) ==
    IF type = "subscribe_job" /\ job_id # <<>>
       /\ job_id[1] \in DOMAIN job_progress
    THEN <<Message("job_status", job_id[1], 0)>>
    ELSE IF type = "ping" THEN <<Message("pong", 0, 0)>>
    ELSE <<>>

\* One message of `async for message in websocket`.  A failing send inside
\* handle_message is logged there (sent = FALSE); nothing is raised.
handle_message(c, type, job_id, sent) ==
    /\ client_pc[c] = "listening"
    /\ handled < MaxMessages
    /\ clients' = [clients EXCEPT ![c] = SubscriptionAfter(@, type, job_id)]
    /\ inbox' = [inbox EXCEPT ![c] =
                    IF sent THEN @ \o Replies(type, job_id) ELSE @]
    /\ handled' = handled + 1
    /\ UNCHANGED <<client_pc, dispatched, sends, metrics_passes, now,
                   managerVars, appVars, trackerVars, pipeVars, winVars>>

\* The message loop ends (the peer closed, the connection broke, or
\* something else was raised) and the finally block runs.
client_exit(c, reason) ==
    /\ client_pc[c] = "listening"
    /\ clients' = ClientsAfterExit(c, reason)
    /\ client_pc' = [client_pc EXCEPT ![c] = "ended"]
    /\ UNCHANGED <<handled, inbox, dispatched, sends, metrics_passes, now,
                   managerVars, appVars, trackerVars, pipeVars, winVars>>

\* broadcast_to_all's choice of recipients
AllClients(job_id) ==
    LET In(c) == c \in DOMAIN clients
    IN SelectSeq(ClientOrder, In)

\* [client for client in self.clients.values()
\*  if job_id in client.subscribed_jobs]
JobSubscribers(job_id) ==
    LET In(c) == c \in DOMAIN clients /\ job_id \in clients[c].subscribed_jobs
    IN SelectSeq(ClientOrder, In)

MetricsSubscribers ==
    LET In(c) == c \in DOMAIN clients /\ clients[c].subscribed_metrics
    IN SelectSeq(ClientOrder, In)

\* asyncio.gather(*[self._send_safe(client.websocket, message) ...]): one
\* task per subscriber, appended to the loop's queue.
SendTasks(subscribers, msg) ==
    [i \in 1..Len(subscribers) |-> [client |-> subscribers[i], msg |-> msg]]

\* The task of the next publication runs: tasks made by create_task start
\* in the order of their creation.
broadcast_to_job_subscribers ==
    /\ dispatched < Len(published)
    /\ LET k == dispatched + 1
           e == published[k]
       IN /\ sends' = sends \o SendTasks(JobSubscribers(e.job_id),
                                         Message(e.type, e.job_id, k))
          /\ dispatched' = k
    /\ UNCHANGED <<clients, client_pc, handled, inbox, metrics_passes, now,
                   managerVars, appVars, trackerVars, pipeVars, winVars>>

\* One iteration of broadcast_metrics_loop: the status is broadcast to the
\* metrics subscribers; nothing else is done.
broadcast_metrics_loop ==
    /\ metrics_passes < MaxMetrics
    /\ sends' = sends \o SendTasks(MetricsSubscribers,
                                   Message("system_metrics", 0, 0))
    /\ metrics_passes' = metrics_passes + 1
    /\ UNCHANGED <<clients, client_pc, handled, inbox, dispatched, now,
                   managerVars, appVars, trackerVars, pipeVars, winVars>>

\* A loop that runs the newest task first.
LastSend == Len(sends)

\* The _send_safe task that runs next: the oldest.
NextSend == 1

\* A broadcast that gives up at the first failing send: the sends of the
\* same message that were still to run are lost.
RemainingAfterAbort(i, sent) ==
    LET Keep(t) == t.msg # sends[i].msg
        rest == [j \in 1..(Len(sends) - 1) |->
                    IF j < i THEN sends[j] ELSE sends[j + 1]]
    IN IF sent THEN rest ELSE SelectSeq(rest, Keep)

\* _send_safe swallows what its send raises and gather collects the rest:
\* the other send tasks stay.
Remaining(i, sent) ==
    [j \in 1..(Len(sends) - 1) |-> IF j < i THEN sends[j] ELSE sends[j + 1]]

\* One _send_safe task: the message is written to the connection, or the
\* send raises (always, once the connection is closed) and is swallowed.
send_safe(sent) ==
    /\ sends # <<>>
    /\ LET t == sends[NextSend]
           written == sent /\ Connected(t.client)
       IN /\ inbox' = [inbox EXCEPT ![t.client] =
                          IF written THEN Append(@, t.msg) ELSE @]
          /\ sends' = Remaining(NextSend, written)
    /\ UNCHANGED <<clients, client_pc, handled, dispatched, metrics_passes,
                   now, managerVars, appVars, trackerVars, pipeVars, winVars>>

ServerInit ==
    /\ clients = <<>>
    /\ client_pc = [c \in ClientIds |-> "new"]
    /\ handled = 0
    /\ inbox = [c \in ClientIds |-> <<>>]
    /\ dispatched = 0
    /\ sends = <<>>
    /\ metrics_passes = 0

\* The connections and their messages
NextClients ==
    \/ \E c \in ClientIds : handle_client(c)
    \/ \E c \in ClientIds, o \in WelcomeOutcomes : send_welcome(c, o)
    \/ \E c \in ClientIds, t \in MessageTypes, j \in JobIdInputs,
          sent \in BOOLEAN : handle_message(c, t, j, sent)
    \/ \E c \in ClientIds, r \in ExitReasons : client_exit(c, r)

\* Both clients are connected and have been welcomed.
ServerListening ==
    /\ clients = [c \in ClientIds |-> ClientSubscription]
    /\ client_pc = [c \in ClientIds |-> "listening"]
    /\ handled = 0
    /\ inbox = [c \in ClientIds |-> <<Message("welcome", 0, 0)>>]
    /\ dispatched = 0
    /\ sends = <<>>
    /\ metrics_passes = 0

SubscriptionTypes == {"subscribe_job", "unsubscribe_job", "subscribe_metrics",
                      "unsubscribe_metrics"}

\* The tracker publishing to the server while the clients change their
\* job subscriptions and leave
NextServer ==
    \/ \E c \in ClientIds, t \in {"subscribe_job", "unsubscribe_job"},
          j \in JobIdInputs, sent \in BOOLEAN : handle_message(c, t, j, sent)
    \/ \E c \in ClientIds, r \in ExitReasons : client_exit(c, r)
    \/ Len(published) < MaxEvents /\ \E j \in TrackerJobIds : start_job(j)
    \/ /\ Len(published) < MaxEvents
       /\ \E j \in TrackerJobIds : update_progress(j, 30, <<>>, <<>>)
    \/ /\ Len(published) < MaxEvents
       /\ \E j \in TrackerJobIds : complete_job(j, <<>>)
    \/ broadcast_to_job_subscribers
    \/ \E sent \in BOOLEAN : send_safe(sent)

\* Jobs starting and the metrics loop running while the clients change
\* their subscriptions
NextTopics ==
    \/ \E c \in ClientIds, t \in SubscriptionTypes, j \in JobIdInputs,
          sent \in BOOLEAN : handle_message(c, t, j, sent)
    \/ Len(published) < MaxEvents /\ \E j \in TrackerJobIds : start_job(j)
    \/ broadcast_to_job_subscribers
    \/ broadcast_metrics_loop
    \/ \E sent \in BOOLEAN : send_safe(sent)

\* The connections from their start, and jobs starting
NextConnections ==
    \/ NextClients
    \/ Len(published) < MaxEvents /\ \E j \in TrackerJobIds : start_job(j)
    \/ broadcast_to_job_subscribers
    \/ \E sent \in BOOLEAN : send_safe(sent)

\* Clients that ping or fall silent while the clock advances
NextHeartbeat ==
    \/ \E c \in ClientIds : handle_client(c)
    \/ \E c \in ClientIds, o \in WelcomeOutcomes : send_welcome(c, o)
    \/ \E c \in ClientIds, t \in {"ping", "subscribe_metrics"},
          sent \in BOOLEAN : handle_message(c, t, <<>>, sent)
    \/ \E c \in ClientIds, r \in ExitReasons : client_exit(c, r)
    \/ broadcast_metrics_loop
    \/ \E sent \in BOOLEAN : send_safe(sent)
    \/ AdvanceClock

--------------------------------------------------------------------------
(* MultiModelTranscriber.transcribe_audio *)

\* Model names, split into the prefix create_transcriber tests with
\* startswith and the rest of the name.
ModelNames ==
    { [prefix |-> "whisper", rest |-> "-large-v3"],
      [prefix |-> "whisper", rest |-> "-medium"],
      [prefix |-> "whisper", rest |-> "-small"],
      [prefix |-> "whisper", rest |-> "-tiny"],
      [prefix |-> "fireredasr", rest |-> "-aed"],
      [prefix |-> "paraformer", rest |-> "-zh"] }

\* gpu_info["memory_free"] of a device, in MB: around each requirement
MemoryInputs == {0, 1023, 1024, 2047, 2048, 3071, 3072, 4095, 4096}

\* model_requirements.get(model_name, 0)
RequiredMemory(model_name) ==
    IF model_name = [prefix |-> "whisper", rest |-> "-large-v3"] THEN 4096
    ELSE IF model_name = [prefix |-> "whisper", rest |-> "-medium"] THEN 2048
    ELSE IF model_name = [prefix |-> "whisper", rest |-> "-small"] THEN 1024
    ELSE IF model_name = [prefix |-> "fireredasr", rest |-> "-aed"] THEN 3072
    ELSE 0

\* A check that wants more free memory than the model requires.
CompatibleAbove(model_name) ==
    /\ t_env.gpu_available
    /\ t_env.memory_free > RequiredMemory(model_name)

\* check_model_compatibility(model_name)["compatible"]
Compatible(model_name) ==
    /\ t_env.gpu_available
    /\ t_env.memory_free >= RequiredMemory(model_name)

\* progress_callback(percent, ...) when a callback was given.
Emit(percent) == IF t_config.callback THEN Append(emitted, percent) ELSE emitted

\* transcribe_audio up to the call of the backend: the compatibility
\* check, create_transcriber, and the first progress report.
TBegin ==
    /\ t_pc = "begin"
    /\ IF ~Compatible(t_config.model_name)
       THEN /\ t_outcome' = "RuntimeError"
            /\ t_pc' = "done"
            /\ UNCHANGED emitted
       ELSE IF t_config.model_name.prefix \notin {"whisper", "fireredasr"}
       THEN /\ t_outcome' = "ValueError"
            /\ t_pc' = "done"
            /\ UNCHANGED emitted
       ELSE /\ emitted' = Emit(5)
            /\ t_pc' = "backend"
            /\ UNCHANGED t_outcome
    /\ UNCHANGED <<t_config, t_env, t_segments, exportVars, now, managerVars, appVars, trackerVars,
                   winVars, serverVars>>

\* transcriber.transcribe up to the inference: load_model, which may
\* raise, and the backend's first progress report.
TBackendStart(loaded) ==
    /\ t_pc = "backend"
    /\ IF loaded
       THEN /\ emitted' = Emit(10)
            /\ t_pc' = "inference"
            /\ UNCHANGED t_outcome
       ELSE /\ t_outcome' = "BackendError"
            /\ t_pc' = "done"
            /\ UNCHANGED emitted
    /\ UNCHANGED <<t_config, t_env, t_segments, exportVars, now, managerVars, appVars, trackerVars,
                   winVars, serverVars>>

\* The percent a backend reports when its inference is over.
BackendDonePercent(prefix) == IF prefix = "whisper" THEN 80 ELSE 100

\* A segment; times are in milliseconds, a text is a sequence of characters.
Segment(start, end, text) == [start |-> start, end |-> end, text |-> text]

\* What model.transcribe may put into result["segments"]: the second
\* segment follows the first, the third overlaps it, the fourth begins
\* after 24 hours.
RawSegments ==
    { Segment(0, 5200, <<"A">>), Segment(5200, 12800, <<"B">>),
      Segment(1001, 4350, <<"C">>), Segment(86400000, 90061500, <<"D">>) }

\* The segment lists a backend may return, in any order.
RawResults ==
    UNION {[1..n -> RawSegments] : n \in 0..MaxResultSegments}

\* The segments of the TranscriptionResult a backend builds: Whisper's are
\* result["segments"] converted one by one in the order given; FiredASR
\* returns one fixed segment.
Segments(prefix, raw) ==
    IF prefix = "fireredasr" THEN <<Segment(0, 5000, <<"F">>)>>
    ELSE [i \in 1..Len(raw) |-> Segment(raw[i].start, raw[i].end, raw[i].text)]

\* The rest of transcriber.transcribe: the inference, which may raise
\* (Whisper's model.transcribe) or return the segments `raw`, and the
\* backend's last progress report.
TBackendRun(ok, raw) ==
    /\ t_pc = "inference"
    /\ IF ok \/ t_config.model_name.prefix = "fireredasr"
       THEN /\ emitted' = Emit(BackendDonePercent(t_config.model_name.prefix))
            /\ t_segments' = Segments(t_config.model_name.prefix, raw)
            /\ t_pc' = "post"
            /\ UNCHANGED t_outcome
       ELSE /\ t_outcome' = "BackendError"
            /\ t_pc' = "done"
            /\ UNCHANGED <<emitted, t_segments>>
    /\ UNCHANGED <<t_config, t_env, exportVars, now, managerVars, appVars, trackerVars,
                   winVars, serverVars>>

\* `config.language == "zh" and self.chinese_processor and config.chinese_settings`
PostProcesses ==
    /\ t_config.language = "zh"
    /\ t_env.chinese_processor
    /\ t_config.chinese_settings

\* ChinesePunctuationProcessor.sentence_endings
\* (the full-width marks are written by name)
SentenceEndings == {"fullwidth_period", "fullwidth_question", "fullwidth_exclamation", ".", "?", "!"}

\* ChineseProcessor.process_text with the default settings, on a text
\* without spaces or conjunctions: a period is added to a text that does
\* not end a sentence.
process_text(text) ==
    IF text = <<>> THEN text
    ELSE IF text[Len(text)] \in SentenceEndings THEN text
    ELSE Append(text, "fullwidth_period")

\* processed_segments: one segment for each segment of the result, in the
\* same order, with the processed text.
ProcessedSegments(segments) ==
    [i \in 1..Len(segments) |->
        Segment(segments[i].start, segments[i].end,
                process_text(segments[i].text))]

\* The Chinese post-processing block; process_text may raise.
TPost(ok) ==
    /\ t_pc = "post"
    /\ IF ~PostProcesses
       THEN /\ t_pc' = "finish"
            /\ UNCHANGED <<emitted, t_segments, t_outcome>>
       ELSE /\ emitted' = Emit(90)
            /\ IF ok
               THEN /\ t_segments' = ProcessedSegments(t_segments)
                    /\ t_pc' = "finish"
                    /\ UNCHANGED t_outcome
               ELSE /\ t_pc' = "done"
                    /\ t_outcome' = "ProcessorError"
                    /\ UNCHANGED t_segments
    /\ UNCHANGED <<t_config, t_env, exportVars, now, managerVars, appVars, trackerVars,
                   winVars, serverVars>>

\* The last progress report and the return.
TFinish ==
    /\ t_pc = "finish"
    /\ emitted' = Emit(100)
    /\ t_outcome' = "returned"
    /\ t_pc' = "done"
    /\ UNCHANGED <<t_config, t_env, t_segments, exportVars, now, managerVars, appVars, trackerVars,
                   winVars, serverVars>>

\* A call transcribe_audio(audio_path, config, progress_callback) on a
\* transcriber whose gpu_info and chinese_processor are env.
PipeInit(config, env) ==
    /\ t_config = config
    /\ t_env = env
    /\ t_pc = "begin"
    /\ emitted = <<>>
    /\ t_segments = <<>>
    /\ t_outcome = "running"
    /\ srt_file = <<>>
    /\ vtt_file = <<>>

Configs ==
    [model_name : ModelNames, language : {"zh", "en"},
     chinese_settings : BOOLEAN, callback : BOOLEAN]

\* detect_gpu leaves memory_free at 0 when no GPU is available.
Envs ==
    {e \in [gpu_available : BOOLEAN, memory_free : MemoryInputs,
            chinese_processor : BOOLEAN] :
        ~e.gpu_available => e.memory_free = 0}

\* TranscriptionConfig() and a transcriber without GPU and processor.
DefaultConfig ==
    [model_name |-> [prefix |-> "whisper", rest |-> "-large-v3"],
     language |-> "zh", chinese_settings |-> TRUE, callback |-> FALSE]

DefaultEnv ==
    [gpu_available |-> FALSE, memory_free |-> 0, chinese_processor |-> FALSE]

NextPipeline ==
    \/ TBegin
    \/ \E loaded \in BOOLEAN : TBackendStart(loaded)
    \/ \E ok \in BOOLEAN, raw \in RawResults : TBackendRun(ok, raw)
    \/ \E ok \in BOOLEAN : TPost(ok)
    \/ TFinish

--------------------------------------------------------------------------
(* MultiModelTranscriber.export_subtitles *)

\* The times t (in milliseconds) of the model whose double t/1000 lies
\* below t/1000: (seconds - int(seconds)) * 1000 then falls short of a
\* whole number.  1.001 - 1 = 0.00099999999999989 and
\* 4.35 - 4 = 0.34999999999999964 in IEEE-754 double arithmetic.
FallsShort == {1001, 4350}

\* int((seconds - int(seconds)) * 1000): int() truncates.
Millisecs(t) == IF t \in FallsShort THEN (t % 1000) - 1 ELSE t % 1000

\* The fields of f"{hours:02d}:{minutes:02d}:{secs:02d}{sep}{millisecs:03d}"
\* for seconds = t/1000; {hours:02d} pads and never cuts.
FormatTime(t, sep) ==
    [hours |-> t \div 3600000,
     minutes |-> (t % 3600000) \div 60000,
     secs |-> (t % 60000) \div 1000,
     sep |-> sep,
     millisecs |-> Millisecs(t)]

format_srt_time(t) == FormatTime(t, ",")

format_vtt_time(t) == FormatTime(t, ".")

\* The cues _export_srt writes: number, times, text.
SrtCues(segments) ==
    [i \in 1..Len(segments) |->
        [index |-> i,
         start |-> format_srt_time(segments[i].start),
         end |-> format_srt_time(segments[i].end),
         text |-> segments[i].text]]

\* The cues _export_vtt writes after the header: times, text.
VttCues(segments) ==
    [i \in 1..Len(segments) |->
        [start |-> format_vtt_time(segments[i].start),
         end |-> format_vtt_time(segments[i].end),
         text |-> segments[i].text]]

\* export_subtitles(result, output_dir, ["srt"]) on the result returned
export_srt ==
    /\ t_outcome = "returned"
    /\ srt_file = <<>>
    /\ srt_file' = <<SrtCues(t_segments)>>
    /\ UNCHANGED <<t_config, t_env, t_pc, emitted, t_segments, t_outcome,
                   vtt_file, now, managerVars, appVars, trackerVars, winVars,
                   serverVars>>

\* export_subtitles(result, output_dir, ["vtt"]) on the result returned
export_vtt ==
    /\ t_outcome = "returned"
    /\ vtt_file = <<>>
    /\ vtt_file' = <<[header |-> "WEBVTT", cues |-> VttCues(t_segments)]>>
    /\ UNCHANGED <<t_config, t_env, t_pc, emitted, t_segments, t_outcome,
                   srt_file, now, managerVars, appVars, trackerVars, winVars,
                   serverVars>>

\* A call of transcribe_audio and the export of its result
NextExport ==
    \/ NextPipeline
    \/ export_srt
    \/ export_vtt

--------------------------------------------------------------------------
(* The start/stop lifecycle of the two background loops *)

\* GPUMonitor._monitor_loop and GPUJobManager._process_jobs; the two
\* classes start and stop their loop with the same code.
Loops == {"monitor", "manager"}

\* The longest one iteration of a loop can take, in seconds: _collect_stats
\* may wait for nvidia-smi until its timeout and is followed by the sleep;
\* an iteration of _process_jobs blocks only in its sleep.
IterationBound(l) ==
    IF l = "monitor" THEN SubprocessTimeout + UpdateInterval
    ELSE AdmissionSleep

\* join(timeout=5.0) can return while the thread is still inside an
\* iteration.
JoinMayTimeOut(l) == IterationBound(l) > JoinTimeout

\* The threads of l that have not left their loop.
RunningLoops(l) ==
    {i \in 1..Len(loop_threads[l]) : loop_threads[l][i] # "done"}

\* start_monitoring / start_processing
start_loop(l) ==
    /\ ~loop_join[l]
    /\ loop_calls[l] < MaxCalls
    /\ loop_calls' = [loop_calls EXCEPT ![l] = @ + 1]
    /\ IF loop_flag[l]
       THEN UNCHANGED <<loop_flag, loop_threads>>
       ELSE /\ loop_flag' = [loop_flag EXCEPT ![l] = TRUE]
            /\ loop_threads' = [loop_threads EXCEPT ![l] = Append(@, "top")]
    /\ UNCHANGED <<loop_join, now, schedVars, monVars, callVars, appVars,
                   trackerVars, pipeVars, winVars, serverVars>>

\* stop_monitoring / stop_processing up to the join: the flag is cleared,
\* and the call waits for the thread last started, if there is one.
stop_loop(l) ==
    /\ ~loop_join[l]
    /\ loop_calls[l] < MaxCalls
    /\ loop_calls' = [loop_calls EXCEPT ![l] = @ + 1]
    /\ loop_flag' = [loop_flag EXCEPT ![l] = FALSE]
    /\ loop_join' = [loop_join EXCEPT ![l] = loop_threads[l] # <<>>]
    /\ UNCHANGED <<loop_threads, now, schedVars, monVars, callVars, appVars,
                   trackerVars, pipeVars, winVars, serverVars>>

\* join(timeout=5.0) returns: the thread has ended, or the timeout passed
\* while the thread was inside an iteration.
join_return(l) ==
    /\ loop_join[l]
    /\ LET last == loop_threads[l][Len(loop_threads[l])]
       IN \/ last = "done"
          \/ last = "body" /\ JoinMayTimeOut(l)
    /\ loop_join' = [loop_join EXCEPT ![l] = FALSE]
    /\ UNCHANGED <<loop_flag, loop_threads, loop_calls, now, schedVars,
                   monVars, callVars, appVars, trackerVars, pipeVars, winVars,
                   serverVars>>

\* `while self.is_monitoring:` / `while self.is_processing:` in thread i
loop_test(l, i) ==
    /\ i \in 1..Len(loop_threads[l])
    /\ loop_threads[l][i] = "top"
    /\ loop_threads' = [loop_threads EXCEPT ![l][i] =
                           IF loop_flag[l] THEN "body" ELSE "done"]
    /\ UNCHANGED <<loop_flag, loop_join, loop_calls, now, schedVars, monVars,
                   callVars, appVars, trackerVars, pipeVars, winVars,
                   serverVars>>

\* One iteration of the loop in thread i, its sleep included.
loop_iteration(l, i) ==
    /\ i \in 1..Len(loop_threads[l])
    /\ loop_threads[l][i] = "body"
    /\ loop_threads' = [loop_threads EXCEPT ![l][i] = "top"]
    /\ UNCHANGED <<loop_flag, loop_join, loop_calls, now, schedVars, monVars,
                   callVars, appVars, trackerVars, pipeVars, winVars,
                   serverVars>>

\* GPUMonitor() and GPUJobManager(): no flag set, no thread.
LifecycleInit ==
    /\ loop_flag = [l \in Loops |-> FALSE]
    /\ loop_threads = [l \in Loops |-> <<>>]
    /\ loop_join = [l \in Loops |-> FALSE]
    /\ loop_calls = [l \in Loops |-> 0]

NextLifecycle ==
    \/ \E l \in Loops : start_loop(l)
    \/ \E l \in Loops : stop_loop(l)
    \/ \E l \in Loops : join_return(l)
    \/ \E l \in Loops, i \in 1..MaxCalls : loop_test(l, i)
    \/ \E l \in Loops, i \in 1..MaxCalls : loop_iteration(l, i)

--------------------------------------------------------------------------
(* Specifications *)

NextSched ==
    \/ \E p \in Priorities : add_job(p)
    \/ \E j \in JobIds : cancel_job(j)
    \/ LoopHead
    \/ GetAndStart
    \/ CheckBegin
    \/ CheckCollect
    \/ MoveCompleted
    \/ UpdateStats
    \/ AdvanceClock

\* The components other than the job manager and the monitor, freshly
\* constructed.
RestInit ==
    /\ CallInit /\ LifecycleInit /\ AppInit /\ TrackerInit /\ WinInit /\ ServerInit
    /\ PipeInit(DefaultConfig, DefaultEnv)

\* The job manager.
Init ==
    /\ now = 0
    /\ \E m \in 1..MaxConcurrent : SchedInit(m)
    /\ MonitorInit
    /\ RestInit

Next == NextSched

Spec == Init /\ [][Next]_vars

\* The other components, freshly constructed.
InitDefault ==
    /\ now = 0
    /\ SchedInit(DefaultMaxConcurrent)
    /\ MonitorInit
    /\ RestInit

\* The HTTP application.
SpecApp == InitDefault /\ [][NextApp]_vars

\* The progress tracker.
SpecTracker == InitDefault /\ [][NextTracker]_vars

\* One call of transcribe_audio.
InitPipeline ==
    /\ now = 0
    /\ SchedInit(DefaultMaxConcurrent)
    /\ MonitorInit
    /\ CallInit /\ LifecycleInit /\ AppInit /\ TrackerInit /\ WinInit /\ ServerInit
    /\ \E config \in Configs, env \in Envs : PipeInit(config, env)

SpecPipeline == InitPipeline /\ [][NextPipeline]_vars

\* The job manager without cancellations, when a pass of the worker takes
\* no time: the clock advances only during the sleep that ends a pass.
NextTicks ==
    \/ \E p \in Priorities : add_job(p)
    \/ LoopHead
    \/ GetAndStart
    \/ CheckBegin
    \/ CheckCollect
    \/ MoveCompleted
    \/ UpdateStats
    \/ pc = "loop" /\ AdvanceClock

SpecTicks == Init /\ [][NextTicks]_vars

\* One pass of the worker thread, step by step.
Worker ==
    \/ LoopHead
    \/ GetAndStart
    \/ CheckBegin
    \/ CheckCollect
    \/ MoveCompleted
    \/ UpdateStats

\* The job manager without cancellations; the submissions end before the
\* clock of the model stops.
NextLive ==
    \/ now + ClockStep <= MaxTime /\ \E p \in Priorities : add_job(p)
    \/ Worker
    \/ AdvanceClock

\* The worker is a thread that loops until the process ends, and time
\* passes: neither stops for ever while it can take a step.
SpecLive ==
    Init /\ [][NextLive]_vars /\ WF_vars(Worker) /\ WF_vars(AdvanceClock)

\* The start and stop calls on the monitor and on the job manager.
SpecLifecycle == InitDefault /\ [][NextLifecycle]_vars

\* One call of transcribe_audio, then the exports of its result.
SpecExport == InitPipeline /\ [][NextExport]_vars

\* The standalone server.
SpecUpload == InitDefault /\ [][NextUpload]_vars

\* GPUResourceManager(), started as at the import of the module, during
\* its first CompletionAge seconds (no job is old enough to be moved to
\* completed_jobs): the monitor thread and the worker thread run, jobs of
\* the default priority arrive, and stop_monitoring is called once.
NextMonitor ==
    \/ MonitorTop
    \/ \E in \in CollectInputs : MonitorCollect(in)
    \/ MonitorPublish
    \/ MonitorAppend
    \/ MonitorTrim
    \/ MonitorSleep
    \/ StopBegin
    \/ StopReturn
    \/ add_job(DefaultPriority)
    \/ LoopHead
    \/ GetAndStart
    \/ CheckBegin
    \/ CheckCollect
    \/ UpdateStats

InitMonitor ==
    /\ now = 0
    /\ SchedInit(DefaultMaxConcurrent)
    /\ MonitorStarted
    /\ RestInit

SpecMonitor == InitMonitor /\ [][NextMonitor]_vars

\* The monitor thread of a started GPUMonitor, stop_monitoring, and callers
\* of get_stats_history.
NextHistory ==
    \/ MonitorTop
    \/ \E in \in CollectInputs : MonitorCollect(in)
    \/ MonitorPublish
    \/ MonitorAppend
    \/ MonitorTrim
    \/ MonitorSleep
    \/ StopBegin
    \/ StopReturn
    \/ \E limit \in 0..MaxLimit : call_get_stats_history(limit)

SpecHistory == InitMonitor /\ [][NextHistory]_vars

\* The read-only calls on a manager whose monitor produced at most one
\* snapshot before it was stopped.
MonitorStoppedWith(stats) ==
    /\ is_monitoring = FALSE
    /\ stats_history = stats
    /\ max_history = MaxHistory
    /\ m_pc = "done"
    /\ m_stats = <<>>
    /\ m_stop = "returned"
    /\ sample_count = Len(stats)

InitSettings ==
    /\ now = 0
    /\ JobManagerInit(DefaultMaxConcurrent)
    /\ \E stats \in SnapshotInputs :
          current_stats = stats /\ MonitorStoppedWith(stats)
    /\ RestInit

SpecSettings == InitSettings /\ [][NextSettings]_vars

\* The job manager without cancellations, over a monitor that was stopped
\* before its first snapshot or after one.
NextAdmission ==
    \/ \E p \in Priorities : add_job(p)
    \/ LoopHead
    \/ GetAndStart
    \/ CheckBegin
    \/ CheckCollect
    \/ MoveCompleted
    \/ UpdateStats
    \/ AdvanceClock

InitAdmission ==
    /\ now = 0
    /\ JobManagerInit(DefaultMaxConcurrent)
    /\ \E stats \in {<<>>} \cup {<<NewStats(1, g, FALSE)>> : g \in Samples} :
          current_stats = stats /\ MonitorStoppedWith(stats)
    /\ RestInit

SpecAdmission == InitAdmission /\ [][NextAdmission]_vars

\* The WebSocket server with the tracker publishing to it, from the state
\* in which both clients have connected
InitServer ==
    /\ now = 0
    /\ SchedInit(DefaultMaxConcurrent)
    /\ MonitorInit
    /\ CallInit /\ LifecycleInit /\ AppInit /\ TrackerInit /\ WinInit /\ ServerListening
    /\ PipeInit(DefaultConfig, DefaultEnv)

SpecServer == InitServer /\ [][NextServer]_vars

\* The topics of the WebSocket server, from the same state
SpecTopics == InitServer /\ [][NextTopics]_vars

\* The connections of the WebSocket server
SpecConnections == InitDefault /\ [][NextConnections]_vars

\* The heartbeats of the clients
SpecHeartbeat == InitDefault /\ [][NextHeartbeat]_vars

\* The job manager with cancel_job and the tracker of the jobs' pipelines,
\* within the first CompletionAge seconds
NextCancel ==
    \/ add_job(DefaultPriority)
    \/ \E j \in TrackerJobIds : cancel_job(j)
    \/ LoopHead
    \/ GetAndStart
    \/ CheckBegin
    \/ CheckCollect
    \/ UpdateStats
    \/ \E j \in TrackerJobIds : start_job(j)
    \/ \E j \in TrackerJobIds, p \in ProgressInputs :
          update_progress(j, p, <<>>, <<>>)
    \/ \E j \in TrackerJobIds, r \in ResultInputs : complete_job(j, r)

SpecCancel == InitDefault /\ [][NextCancel]_vars

--------------------------------------------------------------------------
(* Properties of the job manager, checked under Spec *)

\* C1: the number of jobs held in active_jobs never exceeds
\* max_concurrent_jobs, whatever the interleaving of add_job, cancel_job and
\* the steps of the admission loop.
C1_ActiveWithinLimit == Len(active_jobs) <= max_concurrent_jobs

\* C1 witness: the loop is about to test its guard with every slot taken
\* (two of them) and a job waiting.
C1_Saturated ==
    /\ pc = "loop"
    /\ max_concurrent_jobs = 2
    /\ Len(active_jobs) = max_concurrent_jobs
    /\ job_queue # <<>>

\* C5 (as claimed): a cancel_job call for a job that waits in the queue
\* removes it from the queue.
C5_CancelQueuedRemoves ==
    [][\A j \in JobIds :
          (cancel_job(j) /\ j \in QueueIds) => j \notin QueueIds']_vars

\* C6 (as claimed): a cancel_job call for an active job frees its slot at
\* once, so that the admission guard holds again, and a job that cancel_job
\* reported cancelled is never recorded as completed.
C6_CancelActiveFreesSlotAndStaysCancelled ==
    [][/\ \A j \in JobIds :
            (cancel_job(j) /\ j \in ActiveIds) =>
                (j \notin ActiveIds' /\ Len(active_jobs') < max_concurrent_jobs)
       /\ \A i \in 1..Len(ret') :
            ret'[i].result => ret'[i].job_id \notin CompletedIds']_vars

C8_AdmittedInPriorityOrder ==
    [][job_queue' # job_queue /\ Len(job_queue') < Len(job_queue) =>
          /\ Len(active_jobs) < max_concurrent_jobs
          /\ \E a \in Range(active_jobs') :
                /\ a.job_id \in QueueIds \ QueueIds'
                /\ \A o \in Range(job_queue') :
                      /\ o.priority >= a.priority
                      /\ o.priority = a.priority => o.created_at >= a.created_at
      ]_vars

\* C8 witness: with a single slot, a priority-1 job is active while a
\* priority-2 job that was submitted before it still waits.
C8_UrgentJobOvertook ==
    /\ max_concurrent_jobs = 1
    /\ \E a \in Range(active_jobs), o \in Range(job_queue) :
          /\ a.priority = 1
          /\ o.priority = 2
          /\ o.created_at < a.created_at

\* C9 (as claimed): no job becomes completed by the step that works off
\* the list of jobs selected by their age.
C9_NoCompletionByElapsedTime ==
    [][\A j \in JobIds :
          (j \notin CompletedIds /\ j \in CompletedIds')
          => ~(pc = "move" /\ completed_job_ids # <<>>
               /\ Head(completed_job_ids) = j)]_vars

\* C10 (as claimed): when a pass leaves its admission step for the
\* completion check, every slot is taken or the queue is empty.
C10_PassFillsCapacity ==
    [][(pc \in {"loop", "get"} /\ pc' = "check")
          => (Len(active_jobs') = max_concurrent_jobs \/ job_queue' = <<>>)]_vars

--------------------------------------------------------------------------
(* Property of the HTTP application, checked under SpecApp *)

\* C2 (as claimed): the number of process_transcription tasks executing at
\* the same time never exceeds the configured max_concurrent_jobs.
C2_TasksWithinLimit == Cardinality(ExecutingTasks) <= AppMaxConcurrentJobs

--------------------------------------------------------------------------
(* Property of the progress tracker, checked under SpecTracker *)

TerminalStatus(record) == record.status \in {"completed", "failed"}

\* C3 (as claimed): a call of update_progress, add_segment, complete_job or
\* fail_job never lowers the progress of a job that is not terminal, and
\* changes no field of a job that is terminal.
C3_MonotoneThenFrozen ==
    [][\/ \E j \in TrackerJobIds : start_job(j)
       \/ \A j \in DOMAIN job_progress :
            IF TerminalStatus(job_progress[j])
            THEN job_progress'[j] = job_progress[j]
            ELSE job_progress'[j].progress >= job_progress[j].progress]_vars

--------------------------------------------------------------------------
(* Property of transcribe_audio, checked under SpecPipeline *)

\* C4 (as claimed): the percents passed to progress_callback during one
\* transcription are non-decreasing.
C4_PercentsNonDecreasing ==
    \A i \in 1..(Len(emitted) - 1) : emitted[i] <= emitted[i + 1]

--------------------------------------------------------------------------
(* Properties of the job manager, continued *)

\* C13 (as claimed): every job id that was submitted is recorded as queued,
\* as active or as terminal.  Checked under Spec.
C13_SubmittedJobsStayRecorded ==
    \A j \in 1..job_counter : j \in QueueIds \cup ActiveIds \cup CompletedIds

--------------------------------------------------------------------------
(* Property of admission, checked under SpecAdmission *)

\* C11: a pass of the worker that finds a free slot and a waiting job goes
\* on to admit, whether or not a device is on offer, and when get_best_gpu
\* has no device the job taken from the queue enters active_jobs with no
\* device assigned.
C11_AdmittedWithoutDevice ==
    [][/\ (pc = "loop" /\ pc' # "loop" /\ job_queue # <<>>
            /\ Len(active_jobs) < max_concurrent_jobs) => pc' = "get"
       /\ (pc = "get" /\ pc' = "check" /\ get_best_gpu = <<>>) =>
            \E a \in Range(active_jobs') :
                /\ a.job_id \in QueueIds \ QueueIds'
                /\ a.gpu_id = <<>>]_vars

\* C11 witness: a job was just admitted without a device while the latest
\* snapshot has an empty device list.
C11_ActiveWithNoDevice ==
    /\ pc = "check"
    /\ current_stats # <<>>
    /\ current_stats[1].gpus = <<>>
    /\ \E a \in Range(active_jobs) : a.gpu_id = <<>>

--------------------------------------------------------------------------
(* Properties of the running manager, checked under SpecMonitor *)

\* C17 (as claimed): the history never holds more than max_history
\* snapshots, the snapshots it holds are consecutive in sampling order, and
\* the latest snapshot is its last element.
C17_HistoryBounded ==
    /\ Len(stats_history) <= max_history
    /\ \A i \in 1..(Len(stats_history) - 1) :
          stats_history[i + 1].seq = stats_history[i].seq + 1
    /\ current_stats # <<>> =>
          /\ stats_history # <<>>
          /\ stats_history[Len(stats_history)] = current_stats[1]

\* C18 (as claimed): every _collect_stats call returns a snapshot; its
\* device list is the primary source's, or the command-line source's when
\* the primary failed, and when both failed the list is empty and the
\* runtime feature flag is false.
C18_SamplingNeverThrows ==
    [][\A in \in CollectInputs : MonitorCollect(in) =>
          /\ m_stats' # <<>>
          /\ in.gputil # <<>> => m_stats'[1].gpus = in.gputil[1]
          /\ (in.gputil = <<>> /\ in.smi # <<>>) => m_stats'[1].gpus = in.smi[1]
          /\ (in.gputil = <<>> /\ in.smi = <<>>) =>
                /\ m_stats'[1].gpus = <<>>
                /\ ~m_stats'[1].tensorrt_available]_vars

\* C19 (as claimed): once stop_monitoring has returned, the sampling loop
\* has ended.
C19_StopWaitsForSample == m_stop = "returned" => m_pc = "done"

\* C20 (as claimed): a step changes no field of a snapshot that exists
\* before and after it, be it the latest one or one in the history.
C20_SnapshotsImmutable ==
    [][/\ SameObject(current_stats, current_stats') => current_stats' = current_stats
       /\ \A i \in 1..Len(stats_history), k \in 1..Len(stats_history') :
            stats_history'[k].seq = stats_history[i].seq
            => stats_history'[k] = stats_history[i]]_vars

--------------------------------------------------------------------------
(* Properties of the read-only calls, checked under SpecSettings *)

\* The utilizations of the devices of the latest snapshot.
LatestGpus == IF current_stats = <<>> THEN <<>> ELSE current_stats[1].gpus

\* C14: the result of a get_best_gpu call is None when there is no snapshot
\* or no device, and otherwise the id of a device of the latest snapshot
\* that no other device of it has a smaller utilization than.
C14_BestGpuHasMinimalUtilization ==
    best_gpu_ret # <<>> =>
        IF LatestGpus = <<>> THEN best_gpu_ret[1] = <<>>
        ELSE \E i \in 1..Len(LatestGpus) :
                /\ best_gpu_ret[1] = <<LatestGpus[i].gpu_id>>
                /\ \A k \in 1..Len(LatestGpus) :
                      LatestGpus[i].utilization <= LatestGpus[k].utilization

\* C14 witness: for a device 0 at 70 % followed by a device 1 at 30 %, the
\* call returned device 1.
C14_ReturnedTheIdleDevice ==
    /\ Len(LatestGpus) = 2
    /\ LatestGpus[1].gpu_id = 0 /\ LatestGpus[1].utilization = 70
    /\ LatestGpus[2].gpu_id = 1 /\ LatestGpus[2].utilization = 30
    /\ best_gpu_ret = << <<1>> >>

\* C15 (as claimed): among the devices that share the minimal utilization,
\* get_best_gpu returns the one with the lowest id.
C15_TieGoesToLowestId ==
    (best_gpu_ret # <<>> /\ LatestGpus # <<>>) =>
        \A i \in 1..Len(LatestGpus) :
            (\A k \in 1..Len(LatestGpus) :
                LatestGpus[i].utilization <= LatestGpus[k].utilization)
            => best_gpu_ret[1][1] <= LatestGpus[i].gpu_id

\* C16 (as claimed): with F the free memory of the chosen device, the
\* accelerated runtime is on exactly when F >= 4000 and the feature flag is
\* true, precision is fp16 exactly when F >= 6000, and the batch size is
\* floor(F / 2000) clamped to 1..4.
C16_SettingsByThresholds ==
    (settings_ret # <<>> /\ settings_ret[1].use_gpu) =>
        LET r == settings_ret[1]
            F == r.memory_available
            b == F \div 2000
        IN /\ r.use_tensorrt = (F >= 4000 /\ current_stats[1].tensorrt_available)
           /\ r.precision = (IF F >= 6000 THEN "fp16" ELSE "fp32")
           /\ r.batch_size = (IF b < 1 THEN 1 ELSE IF b > 4 THEN 4 ELSE b)

--------------------------------------------------------------------------
(* Property of the standalone server, checked under SpecUpload *)

\* C12 (as claimed): every accepted upload got a job id larger than the
\* ids of all uploads accepted before it.
C12_IdsUniqueAndIncreasing ==
    \A i, k \in 1..Len(w_accepted) : i < k => w_accepted[i] < w_accepted[k]

--------------------------------------------------------------------------
(* Properties of the WebSocket server, checked under SpecServer *)

\* C21: when the broadcast of an event runs, every client subscribed to the
\* event's job gets a send task of its own for it; a send task that runs,
\* failing or not, leaves every other send task in place and touches no
\* other client's connection, and nothing but that one send is lost.
C21_PublishReachesEverySubscriber ==
    [][/\ dispatched' # dispatched =>
             LET k == dispatched'
                 e == published[k]
             IN \A c \in DOMAIN clients :
                   e.job_id \in clients[c].subscribed_jobs =>
                      \E i \in (Len(sends) + 1)..Len(sends') :
                         sends'[i] = [client |-> c,
                                      msg |-> Message(e.type, e.job_id, k)]
       /\ Len(sends') < Len(sends) =>
             /\ sends' = Tail(sends)
             /\ \A c \in ClientIds \ {sends[1].client} : inbox'[c] = inbox[c]
             /\ inbox'[sends[1].client] \in
                   {inbox[sends[1].client],
                    Append(inbox[sends[1].client], sends[1].msg)}]_vars

\* C21 witness: both clients subscribed to job 1 with their only message and
\* stayed; the second event of job 1 reached c2 although its send to c1,
\* which had received the first, failed.
C21_OneFailedOtherReceived ==
    /\ Len(published) >= 2
    /\ published[1].job_id = 1 /\ published[2].job_id = 1
    /\ dispatched >= 2 /\ sends = <<>> /\ handled = 2
    /\ \A c \in ClientIds :
          Connected(c) /\ clients[c].subscribed_jobs = {1}
    /\ \E i \in 1..Len(inbox["c1"]) : inbox["c1"][i].k = 1
    /\ \A i \in 1..Len(inbox["c1"]) : inbox["c1"][i].k # 2
    /\ \E i \in 1..Len(inbox["c2"]) : inbox["c2"][i].k = 2

--------------------------------------------------------------------------
(* Properties of the topics, checked under SpecTopics *)

--------------------------------------------------------------------------
(* Properties of the broadcasts, checked under SpecServer *)

\* C23: on every connection, the events of one job appear in the order in
\* which the tracker published them.
C23_DeliveredInPublishOrder ==
    \A c \in ClientIds :
       \A i, j \in 1..Len(inbox[c]) :
          (/\ i < j
           /\ inbox[c][i].k > 0 /\ inbox[c][j].k > 0
           /\ inbox[c][i].job_id = inbox[c][j].job_id)
             => inbox[c][i].k < inbox[c][j].k

\* C23 witness: the first two events published were both of job 1 and c1
\* has received both.
C23_TwoEventsOfOneJob ==
    /\ Len(published) >= 2
    /\ \A k \in 1..2 : published[k].job_id = 1
    /\ \A k \in 1..2 : \E i \in 1..Len(inbox["c1"]) : inbox["c1"][i].k = k

--------------------------------------------------------------------------
(* Properties of the connections, checked under SpecConnections *)

\* The clients whose handler is reading messages
Listening == {c \in ClientIds : client_pc[c] = "listening"}

\* C24 (as claimed): handling subscribe_job, unsubscribe_job,
\* subscribe_metrics or unsubscribe_metrics a second time leaves the
\* subscription as the first left it; unsubscribe_job for a job the client
\* is not subscribed to changes nothing; and a message naming a job id that
\* the tracker does not know changes nothing.
C24_UnknownJobChangesNothing ==
    \A c \in Listening, j \in JobIdInputs, t \in SubscriptionTypes :
       LET once == SubscriptionAfter(clients[c], t, j)
       IN /\ SubscriptionAfter(once, t, j) = once
          /\ (t = "unsubscribe_job" /\ j # <<>>
              /\ j[1] \notin clients[c].subscribed_jobs) => once = clients[c]
          /\ (t \in {"subscribe_job", "unsubscribe_job"} /\ j # <<>>
              /\ j[1] \notin DOMAIN job_progress) => once = clients[c]

\* C24 (amended): for every client and every job id (a tracked one, an
\* untracked one, or none), handling subscribe_job, unsubscribe_job,
\* subscribe_metrics or unsubscribe_metrics a second time leaves the
\* subscription as the first left it; unsubscribe_job for a job the client
\* is not subscribed to, and unsubscribe_metrics without a metrics
\* subscription, change nothing; subscribe_job adds the job id it names,
\* tracked or not; and no error message is ever sent to a client.
C24_SubscriptionsIdempotent ==
    /\ \A c \in Listening, j \in JobIdInputs, t \in SubscriptionTypes :
          LET once == SubscriptionAfter(clients[c], t, j)
          IN /\ SubscriptionAfter(once, t, j) = once
             /\ (t = "unsubscribe_job" /\ j # <<>>
                 /\ j[1] \notin clients[c].subscribed_jobs) => once = clients[c]
             /\ (t = "unsubscribe_metrics"
                 /\ ~clients[c].subscribed_metrics) => once = clients[c]
             /\ (t = "subscribe_job" /\ j # <<>>) =>
                   once.subscribed_jobs =
                      clients[c].subscribed_jobs \cup {j[1]}
    /\ \A c \in ClientIds :
          \A i \in 1..Len(inbox[c]) : inbox[c][i].type # "error"

\* C24 witness: c1 has sent subscribe_job for job 1 twice (it got the job's
\* status twice, and the clients sent two messages in all) and is subscribed
\* to job 1 and nothing else.
C24_SubscribedTwice ==
    /\ handled = 2
    /\ "c1" \in DOMAIN clients
    /\ clients["c1"].subscribed_jobs = {1}
    /\ ~clients["c1"].subscribed_metrics
    /\ Len(SelectSeq(inbox["c1"],
                     LAMBDA m : m.type = "job_status" /\ m.job_id = 1)) = 2

--------------------------------------------------------------------------
(* Properties of the heartbeats, checked under SpecHeartbeat *)

\* C25 (as claimed): after an iteration of the server's periodic loop, no
\* client whose handler is reading messages and whose last ping is older
\* than the heartbeat timeout is left in the clients table, and the
\* iteration makes no send task for such a client.
C25_SilentClientsPruned ==
    [][metrics_passes' # metrics_passes =>
          /\ \A c \in DOMAIN clients' :
                client_pc[c] = "listening" =>
                   now - clients'[c].last_ping <= HeartbeatTimeout
          /\ \A i \in (Len(sends) + 1)..Len(sends') :
                now - clients[sends'[i].client].last_ping
                   <= HeartbeatTimeout]_vars

--------------------------------------------------------------------------
(* Properties of the connections, checked under SpecConnections *)

\* C26: the clients table holds exactly the clients whose handle_client has
\* registered them and has not finished; a client whose handler has finished
\* is in no selection of recipients, and no step makes a send task for it.
C26_EndedClientsRemoved ==
    [][/\ \A c \in ClientIds :
             /\ c \in DOMAIN clients' <=> Connected(c)'
             /\ client_pc'[c] = "ended" =>
                   /\ c \notin DOMAIN clients'
                   /\ c \notin Range(MetricsSubscribers')
                   /\ \A j \in TrackerJobIds : c \notin Range(JobSubscribers(j)')
       /\ \A i \in (Len(sends) + 1)..Len(sends') :
             client_pc[sends'[i].client] # "ended"]_vars

\* C26 witness: c1 subscribed to job 1 (it got the job's status) and its
\* handler has finished; the second event published, one of job 1, has been
\* broadcast and sent: c2 has it, c1 has not.
C26_LeftBeforeTheEvent ==
    /\ client_pc["c1"] = "ended" /\ client_pc["c2"] = "listening"
    /\ \E i \in 1..Len(inbox["c1"]) :
          inbox["c1"][i].type = "job_status" /\ inbox["c1"][i].job_id = 1
    /\ Len(published) >= 2 /\ published[2].job_id = 1
    /\ dispatched >= 2 /\ sends = <<>>
    /\ \A i \in 1..Len(inbox["c1"]) : inbox["c1"][i].k # 2
    /\ \E i \in 1..Len(inbox["c2"]) : inbox["c2"][i].k = 2

--------------------------------------------------------------------------
(* Properties of cancellation, checked under SpecCancel *)

\* The last cancel_job call was for job j and cancelled it while it ran.
CancelledRunning(j) ==
    ret # <<>> /\ ret[1].job_id = j /\ ret[1].result

\* C27 (as claimed): once cancel_job has cancelled a running job, no step
\* records a result for the job and no step publishes job_completed for it.
C27_OutputDiscardedAfterCancel ==
    [][\A j \in TrackerJobIds :
          CancelledRunning(j) =>
             /\ (j \in DOMAIN job_progress /\ j \in DOMAIN job_progress') =>
                   job_progress'[j].result = job_progress[j].result
             /\ ~(/\ Len(published') = Len(published) + 1
                  /\ published'[Len(published')] =
                        [type |-> "job_completed", job_id |-> j])]_vars

--------------------------------------------------------------------------
(* Properties of the compatibility check, checked under SpecPipeline *)

\* The model has an entry in model_requirements.
InTable(model_name) == RequiredMemory(model_name) > 0

\* C28: for a transcriber with a GPU and any model, and for a transcriber
\* without a GPU (free memory 0) and a model of the requirements table,
\* transcribe_audio is rejected by the compatibility check exactly when the
\* free memory is below the model's required memory.
C28_AcceptedIffEnoughMemory ==
    (/\ t_pc # "begin"
     /\ t_env.gpu_available \/ InTable(t_config.model_name))
       => (t_outcome = "RuntimeError"
             <=> t_env.memory_free < RequiredMemory(t_config.model_name))

\* C28 witness: whisper-large-v3, which requires 4096 MB, has passed the
\* check with exactly 4096 MB free.
C28_AcceptedAtTheBoundary ==
    /\ t_pc # "begin"
    /\ t_config.model_name = [prefix |-> "whisper", rest |-> "-large-v3"]
    /\ t_env.gpu_available /\ t_env.memory_free = 4096
    /\ t_outcome # "RuntimeError"


\* C29 (as claimed): a call rejected by the compatibility check has reported
\* no progress, and it is rejected only when the free memory is below the
\* model's requirement, or when the model needs a GPU (it has a memory
\* requirement) and none is available.
C29_RejectedOnlyForMemoryOrMandatoryGpu ==
    t_outcome = "RuntimeError" =>
       /\ emitted = <<>>
       /\ \/ t_env.memory_free < RequiredMemory(t_config.model_name)
          \/ InTable(t_config.model_name) /\ ~t_env.gpu_available

\* C30 (as claimed): a call whose backend has returned a result returns a
\* result itself, whether the Chinese processor is absent, present and
\* working, or present and raising.
C30_PostProcessingNeverFails ==
    t_pc = "done" =>
       t_outcome \in {"returned", "RuntimeError", "ValueError", "BackendError"}

--------------------------------------------------------------------------
(* Properties of the result's segments, checked under SpecPipeline *)

\* C31 (as claimed): the segments of a returned TranscriptionResult are
\* ordered by start time, whatever order the backend emitted them in.
C31_SegmentsSortedByStart ==
    t_outcome = "returned" =>
        \A i, j \in 1..Len(t_segments) :
            i < j => t_segments[i].start <= t_segments[j].start

--------------------------------------------------------------------------
(* Properties of the exports, checked under SpecExport *)

\* The time in milliseconds a rendering HH:MM:SS,mmm or HH:MM:SS.mmm denotes.
TimeOf(r) == ((r.hours * 60 + r.minutes) * 60 + r.secs) * 1000 + r.millisecs

\* The (start, end, text) tuples read back from a list of cues.
TuplesOfCues(cues) ==
    [i \in 1..Len(cues) |->
        <<TimeOf(cues[i].start), TimeOf(cues[i].end), cues[i].text>>]

\* The (start, end, text) tuples of the segments of a result.
TuplesOfSegments(segments) ==
    [i \in 1..Len(segments) |->
        <<segments[i].start, segments[i].end, segments[i].text>>]

\* C32 (as claimed): the SRT file and the VTT file written for a result
\* whose times are whole milliseconds read back as the result's
\* (start, end, text) tuples, in the same order.
C32_ExportsReadBackAsSegments ==
    /\ srt_file # <<>> =>
          TuplesOfCues(srt_file[1]) = TuplesOfSegments(t_segments)
    /\ vtt_file # <<>> =>
          TuplesOfCues(vtt_file[1].cues) = TuplesOfSegments(t_segments)

--------------------------------------------------------------------------
(* Properties of the loops' lifecycle, checked under SpecLifecycle *)

\* C33 (as claimed): whatever start and stop calls are made, at most one
\* sampling loop and at most one admission loop is running.
C33_AtMostOneLoopEach ==
    \A l \in Loops : Cardinality(RunningLoops(l)) <= 1

--------------------------------------------------------------------------
(* Properties of the job manager under concurrent cancellation, checked
   under Spec *)

\* C34 (as claimed): a job that the last cancel_job call reported cancelled
\* is not recorded in completed_jobs, no job id is recorded there twice, and
\* no job is both active and completed.
C34_CancelAndCompletionExclusive ==
    /\ (ret # <<>> /\ ret[1].result) => ret[1].job_id \notin CompletedIds
    /\ \A i, k \in 1..Len(completed_jobs) :
          completed_jobs[i] = completed_jobs[k] => i = k
    /\ ActiveIds \cap CompletedIds = {}

--------------------------------------------------------------------------
(* Properties of the job counts of the latest snapshot, checked under
   SpecMonitor *)

\* C35 (as claimed): once the latest snapshot shows the job counts the
\* scheduler wrote, no step puts both counts of the latest snapshot back to
\* 0 while a job is active or queued.
C35_JobCountsNotReset ==
    [][(/\ current_stats # <<>>
        /\ current_stats[1].active_jobs + current_stats[1].queue_length > 0
        /\ (active_jobs' # <<>> \/ job_queue' # <<>>))
       => (/\ current_stats' # <<>>
           /\ current_stats'[1].active_jobs + current_stats'[1].queue_length > 0)]_vars

--------------------------------------------------------------------------
(* Properties of the completion check, checked under SpecTicks *)

\* C36 (as claimed): the pass of the admission loop that admits a job does
\* not record that job completed, however long the job waited in the queue;
\* stated for the jobs admitted after another job has completed.
C36_NotCompletedInAdmittingPass ==
    [][\A j \in JobIds :
          (completed_jobs # <<>> /\ j \notin CompletedIds /\ j \in CompletedIds')
          => pass_job # <<j>>]_vars

--------------------------------------------------------------------------
(* Properties of progress, checked under SpecLive *)

\* C37: with the worker running, every job that add_job queued is
\* eventually in active_jobs, and every job in active_jobs eventually
\* leaves it and is recorded in completed_jobs, whatever its priority and
\* whether or not a device was on offer.
C37_EveryJobAdmittedAndCompleted ==
    \A j \in JobIds :
        /\ (j \in QueueIds) ~> (j \in ActiveIds)
        /\ (j \in ActiveIds) ~> (j \notin ActiveIds /\ j \in CompletedIds)

\* C37 witness: with one slot, all the jobs of the model were submitted and
\* all are completed; no snapshot existed, so none was given a device.
C37_AllCompletedWithoutDevice ==
    /\ max_concurrent_jobs = 1
    /\ job_counter = MaxJobs
    /\ CompletedIds = JobIds
    /\ job_queue = <<>> /\ active_jobs = <<>>
    /\ current_stats = <<>>

--------------------------------------------------------------------------
(* Properties of the reported job count, checked under SpecApp *)

\* C38 (as claimed): the activeJobs value of the metrics and health
\* operations is the number of jobs in jobs_db that have reached neither
\* completed nor failed.
C38_ActiveJobsCountsUnfinished ==
    ActiveJobsReported =
        Cardinality({j \in DOMAIN jobs_db :
                        jobs_db[j].status \notin {"completed", "failed"}})

--------------------------------------------------------------------------
(* Properties of the compatibility check, continued (SpecPipeline) *)

\* C39 (as claimed): a call for a model without an entry in the
\* requirements table is rejected by the compatibility check, whatever the
\* free memory, and goes no further.
C39_UnlistedModelRejected ==
    (t_pc # "begin" /\ ~InTable(t_config.model_name))
        => t_outcome = "RuntimeError"


(* get_stats_history, checked under SpecHistory *)

\* The last n elements of seq (all of it when it is shorter).
LastOf(seq, n) ==
    SubSeq(seq, Len(seq) - Min(n, Len(seq)) + 1, Len(seq))

\* C40 (as claimed): a get_stats_history(limit) call returns the
\* min(limit, history length) most recent snapshots of the history it
\* reads, in sampling order, for every limit >= 0, limit = 0 included.
C40_HistoryLimitRespected ==
    [][\A limit \in 0..MaxLimit :
         (call_get_stats_history(limit) /\ history_ret' # <<>>) =>
            /\ Len(history_ret'[1].result) = Min(limit, Len(stats_history))
            /\ history_ret'[1].result = LastOf(stats_history, limit)]_vars

==========================================================================
